---------------------------- MODULE Spec2Model ----------------------------
(***************************************************************************)
(* A model of the opendeck-graphs plugin (mdvictor/opendeck-graphs):       *)
(*   - the bounded sample window GraphData (plugin.rs and graph_data.rs),  *)
(*   - the shared instance map GRAPH_INSTANCES, its tokio Mutex, the       *)
(*     periodic tick task and the three host event handlers (plugin.rs),   *)
(*   - the line rasterizer and the drawing primitives of gfx.rs.           *)
(*                                                                         *)
(* f32 samples are modelled by integers; every arithmetic expression that  *)
(* the model evaluates on them is exact in f32 for the values used.        *)
(* Option<T> is modelled by a sequence: << >> is None, <<v>> is Some(v).   *)
(***************************************************************************)
EXTENDS Integers, Sequences, FiniteSets, TLC

VARIABLES
    \* ---- GraphData under test on its own (SpecWindow) ----
    winSrc,          \* which source file's GraphData: "plugin" or "graph_data"
    winData,         \* the GraphData value: [data_points, settings, ws_client]
    winHist,         \* history: every value appended since GraphData::new, in order
    winConfig,       \* Option<GraphConfig>: the last value get_graph_config returned
    \* ---- the plugin (Spec) ----
    GRAPH_INSTANCES, \* HashMap<String, GraphData>: a function with domain \subseteq Ids
    lockHolder,      \* who holds the GRAPH_INSTANCES mutex: "free" or a task name
    hostVisible,     \* the host library's set of visible instances
    handlerPc,       \* per handler kind: "idle" or "locked"
    handlerArg,      \* per handler kind: [id, settings] of the call in flight
    tickPc,          \* position of the monitoring task
    ticks,           \* number of interval ticks so far
    tickVisible,     \* the rest of `visible` still to iterate
    tickId,          \* instance_id of the current iteration
    tickRead,        \* Result<f32> of read_sensor_value: [ok, v]
    tickBefore,      \* history: data_points of tickId when the lock was taken
    tickConfig,      \* local `config` rendered into data_uri
    tickTitle,       \* local `title_option`
    hostImage,       \* per instance: last image handed to the host (Option)
    hostTitle,       \* per instance: last title handed to the host (Option<Option>)
    wsSpawned,       \* the handler that returned last and its WebSocketClient::start calls
    \* ---- draw_line_segment called as (A, B) and then as (B, A) (SpecLine) ----
    lnA, lnB,        \* the two endpoints <<x, y>>
    lnCall,          \* "first": drawing (A, B); "second": drawing (B, A); "done"
    ln,              \* the locals of the running call, its put_pixel calls and iterations
    lnFirst,         \* the put_pixel calls of the first call, in order
    \* ---- generate_graph / generate_gauge on one GraphConfig (SpecRender) ----
    rCfg,            \* the GraphConfig
    rKind,           \* "graph": generate_graph; "gauge": generate_gauge
    rPc,             \* "start", "fill", "line", "arc", "done" or "panicked"
    rPoints,         \* the points normalize_points returned
    rIdx,            \* the loop variable: fill column, line segment or arc number
    rTouched,        \* the pixels the last step passed to get_pixel / put_pixel
    rResult,         \* Option<Result>: Some("Ok") once the function has returned
    rTitle,          \* Option: the title and colour of the draw_title call
    rColor,          \* Option: the colour the last step drew with
    rAlpha,          \* Option: the gradient alpha of the last filled column
    rArc,            \* Option: the angles of the last draw_thick_arc call
    rGauge,          \* Option: percentage and threshold_percentage of generate_gauge
    rImg,            \* img: the fill columns and the pixels written with put_pixel
    \* ---- the colours of get_graph_config (SpecColor) ----
    colNormal,       \* settings.normal_color: a string, as a sequence of chars
    colWarning,      \* settings.warning_color
    colPc,           \* "normal", "warning", "done" or "panicked"
    colScheme,       \* the normal_color / warning_color locals, None until computed
    \* ---- one WebSocketClient and its tasks (SpecWebSocket) ----
    wsConfig,        \* WebSocketConfig: [init_messages (their number), send_pings]
    wsPc,            \* run_connection: "new", "connect", "init", "read", "returned" or "sleep"
    wsAttempts,      \* the calls of connect_and_run so far
    wsInitIdx,       \* idx of the init message loop
    wsPing,          \* the ping tasks spawned so far: "alive", "ended" or "aborted"
    wsPingHandle,    \* ping_handle: Option of an index into wsPing
    wsPingId,        \* *ping_id
    wsValue,         \* *current_value
    wsResult         \* Option: what the last connect_and_run returned

winVars  == <<winSrc, winData, winHist, winConfig>>
tickVars == <<tickPc, ticks, tickVisible, tickId, tickRead, tickBefore, tickConfig, tickTitle>>
hostVars == <<hostImage, hostTitle>>
plugVars == <<GRAPH_INSTANCES, lockHolder, hostVisible, handlerPc, handlerArg,
              tickVars, hostVars, wsSpawned>>
lineVars == <<lnA, lnB, lnCall, ln, lnFirst>>
rendVars == <<rCfg, rKind, rPc, rPoints, rIdx, rTouched, rResult, rTitle, rColor, rAlpha, rArc,
              rGauge, rImg>>
colVars  == <<colNormal, colWarning, colPc, colScheme>>
wsVars   == <<wsConfig, wsPc, wsAttempts, wsInitIdx, wsPing, wsPingHandle, wsPingId, wsValue,
              wsResult>>
vars     == <<winVars, plugVars, lineVars, rendVars, colVars, wsVars>>

\* what the actions of one part leave alone
notWin  == <<plugVars, lineVars, rendVars, colVars, wsVars>>
notPlug == <<winVars, lineVars, rendVars, colVars, wsVars>>
notLine == <<winVars, plugVars, rendVars, colVars, wsVars>>
notRend == <<winVars, plugVars, lineVars, colVars, wsVars>>
notCol  == <<winVars, plugVars, lineVars, rendVars, wsVars>>
notWs   == <<winVars, plugVars, lineVars, rendVars, colVars>>

-----------------------------------------------------------------------------
(* Bounds of the model *)

MaxAppends == 11       \* appends to the plugin.rs window in SpecWindow
GdMaxAppends == 62     \* appends to the graph_data.rs window in SpecWindow
MaxSamples == 3        \* data points of a rendered GraphConfig in SpecRender
LineSpan == 5          \* endpoints lie within LineSpan pixels of the canvas edge
MaxTicks == 2          \* interval ticks of the monitoring task in Spec

\* the samples a source can yield: two values tell the positions of a window apart
Values == {0, 1}
\* instance ids the host uses
Ids == {"a"}

None == << >>
Some(v) == <<v>>
IsSome(o) == o /= << >>
Unwrap(o) == o[1]

-----------------------------------------------------------------------------
(* Program constants *)

MAX_DATA_POINTS == 10
GD_MAX_DATA_POINTS == 60
ICON_SIZE == 144
GRAPH_PADDING == 10
TITLE_HEIGHT == 35

Capacity(src) == IF src = "plugin" THEN MAX_DATA_POINTS ELSE GD_MAX_DATA_POINTS


-----------------------------------------------------------------------------
(* MetricType (plugin.rs 36-121, graph_data.rs 28-116).  "CpuFan" exists    *)
(* only in plugin.rs and "RamTemp" only in graph_data.rs.                   *)

TempMetrics == {"CpuTemp", "CpuPackageTemp", "GpuTemp", "MotherboardTemp", "NvmeTemp", "RamTemp"}
LoadMetrics == {"CpuLoad", "GpuLoad", "RamUsage"}
FanMetrics  == {"CpuFan", "SystemFan"}
DiskMetrics == {"DiskWrite", "DiskRead"}
NetMetrics  == {"NetDownload", "NetUpload"}

default_max(m) ==
    IF m \in TempMetrics THEN 120
    ELSE IF m \in LoadMetrics THEN 100
    ELSE IF m \in FanMetrics THEN 3000
    ELSE IF m = "CpuVoltage" THEN 2
    ELSE IF m \in DiskMetrics THEN 500
    ELSE 125

default_threshold(m) ==
    IF m \in {"CpuTemp", "CpuPackageTemp"} THEN Some(80)
    ELSE IF m \in LoadMetrics THEN Some(80)
    ELSE IF m = "GpuTemp" THEN Some(85)
    ELSE IF m = "MotherboardTemp" THEN Some(60)
    ELSE IF m = "NvmeTemp" THEN Some(70)
    ELSE IF m = "RamTemp" THEN Some(85)
    ELSE None

display_name(m) ==
    CASE m = "CpuTemp" -> "CPU Temp"
      [] m = "CpuPackageTemp" -> "CPU Package"
      [] m = "CpuLoad" -> "CPU Load"
      [] m = "GpuTemp" -> "GPU Temp"
      [] m = "GpuLoad" -> "GPU Load"
      [] m = "MotherboardTemp" -> "Motherboard"
      [] m = "NvmeTemp" -> "NVMe Temp"
      [] m = "CpuFan" -> "CPU Fan"
      [] m = "SystemFan" -> "System Fan"
      [] m = "CpuVoltage" -> "CPU Voltage"
      [] m = "DiskWrite" -> "Disk Write"
      [] m = "DiskRead" -> "Disk Read"
      [] m = "RamUsage" -> "RAM Usage"
      [] m = "RamTemp" -> "RAM Temp"
      [] m = "NetDownload" -> "Net Down"
      [] m = "NetUpload" -> "Net Up"

\* the temperature suffix is the degree sign followed by C
value_suffix(m) ==
    IF m \in TempMetrics THEN "degC"
    ELSE IF m \in LoadMetrics THEN "%"
    ELSE IF m \in FanMetrics THEN " RPM"
    ELSE IF m = "CpuVoltage" THEN "V"
    ELSE " MB/s"

-----------------------------------------------------------------------------
(* GraphSettings: the fields the modelled code reads.  The settings the     *)
(* host can push are drawn from SettingsSet.                                *)

GraphSettings(ds, mt, url, show, thr, maxv, minv, fan) ==
    [data_source |-> ds, metric_type |-> mt, websocket_url |-> url,
     show_value_text |-> show, threshold |-> thr, max_value |-> maxv,
     min_value |-> minv, fan_number |-> fan]

\* #[derive(Default)] / impl Default: LmSensors, CpuTemp, None, false
DefaultSettings ==
    GraphSettings("LmSensors", "CpuTemp", None, FALSE, None, None, None, None)

\* the settings the host pushes to the running plugin
PluginSettings ==
    { DefaultSettings,
      GraphSettings("WebSocket", "CpuTemp", Some("ws://h"), TRUE, None, None, None, None),
      GraphSettings("WebSocket", "CpuTemp", None, TRUE, None, None, None, None) }

SettingsSet ==
    { DefaultSettings,
      GraphSettings("LmSensors", "SystemFan", None, TRUE, Some(1), Some(1), Some(0), Some(2)),
      GraphSettings("WebSocket", "CpuTemp", Some("ws://h"), TRUE, None, None, None, None),
      GraphSettings("WebSocket", "CpuTemp", None, FALSE, Some(0), Some(0), Some(0), None) }

-----------------------------------------------------------------------------
(* GraphData *)

\* GraphData::new
GraphData_new(settings) ==
    [data_points |-> << >>, settings |-> settings, ws_client |-> None]

\* VecDeque::pop_front and push_back
pop_front(q) == IF q = << >> THEN q ELSE Tail(q)
push_back(q, v) == Append(q, v)

\* add_data_point with `>` for `>=`: the window grows to cap + 1
add_data_point_gt(gd, value, cap) ==
    LET popped == IF Len(gd.data_points) > cap
                  THEN pop_front(gd.data_points)
                  ELSE gd.data_points
    IN  [gd EXCEPT !.data_points = push_back(popped, value)]

\* add_data_point with pop_back for pop_front: the newest sample is evicted
add_data_point_pop_back(gd, value, cap) ==
    LET popped == IF Len(gd.data_points) >= cap
                  THEN SubSeq(gd.data_points, 1, Len(gd.data_points) - 1)
                  ELSE gd.data_points
    IN  [gd EXCEPT !.data_points = push_back(popped, value)]

\* GraphData::add_data_point, with the MAX_DATA_POINTS of its source file
add_data_point_cap(gd, value, cap) ==
    LET popped == IF Len(gd.data_points) >= cap
                  THEN pop_front(gd.data_points)
                  ELSE gd.data_points
    IN  [gd EXCEPT !.data_points = push_back(popped, value)]

add_data_point(gd, value) == add_data_point_cap(gd, value, MAX_DATA_POINTS)

\* the title computed by get_graph_config
config_title(src, settings) ==
    IF settings.data_source = "LmSensors"
    THEN IF src = "graph_data" /\ settings.metric_type = "SystemFan"
         THEN IF IsSome(settings.fan_number)
              THEN <<"Fan ", Unwrap(settings.fan_number)>>
              ELSE <<"Fan 1">>
         ELSE <<display_name(settings.metric_type)>>
    ELSE <<"WebSocket">>

\* GraphData::get_graph_config: the GraphConfig it builds
GraphConfigOf(src, gd) ==
    [data_points |-> [i \in 1..Len(gd.data_points) |-> gd.data_points[i]],
     max_value   |-> IF IsSome(gd.settings.max_value) THEN Unwrap(gd.settings.max_value)
                     ELSE IF gd.settings.data_source = "LmSensors"
                          THEN default_max(gd.settings.metric_type)
                          ELSE 100,
     min_value   |-> IF IsSome(gd.settings.min_value) THEN Unwrap(gd.settings.min_value)
                     ELSE 0,
     threshold   |-> IF IsSome(gd.settings.threshold) THEN gd.settings.threshold
                     ELSE IF gd.settings.data_source = "LmSensors"
                          THEN default_threshold(gd.settings.metric_type)
                          ELSE None,
     title       |-> config_title(src, gd.settings)]

\* get_graph_config with data_points.drain(..) for data_points.iter().copied()
get_graph_config_drain(src, gd) ==
    [self |-> [gd EXCEPT !.data_points = << >>], ret |-> GraphConfigOf(src, gd)]

\* GraphData::get_graph_config(&self): [self |-> the receiver after the call,
\* ret |-> the returned GraphConfig]
get_graph_config_src(src, gd) == [self |-> gd, ret |-> GraphConfigOf(src, gd)]

get_graph_config(gd) == get_graph_config_src("plugin", gd)


-----------------------------------------------------------------------------
(* SpecWindow: one GraphData driven through its methods.                    *)
(* A plugin.rs window (capacity 10) takes any sample of Values.  A          *)
(* graph_data.rs window (capacity 60) takes the samples 1, 2, 3, ... so     *)
(* that every position of the window is told apart.                         *)

SampleInputs(src, n) == IF src = "plugin" THEN Values ELSE {n + 1}
AppendBound(src) == IF src = "plugin" THEN MaxAppends ELSE GdMaxAppends

WinIdle ==
    /\ winSrc = "plugin"
    /\ winData = GraphData_new(DefaultSettings)
    /\ winHist = << >>
    /\ winConfig = None

WinInit ==
    /\ winSrc \in {"plugin", "graph_data"}
    /\ \E s \in SettingsSet : winData = GraphData_new(s)
    /\ winHist = << >>
    /\ winConfig = None

WinAdd ==
    /\ Len(winHist) < AppendBound(winSrc)
    /\ \E v \in SampleInputs(winSrc, Len(winHist)) :
          /\ winData' = add_data_point_cap(winData, v, Capacity(winSrc))
          /\ winHist' = Append(winHist, v)
    /\ UNCHANGED <<winSrc, winConfig, notWin>>

WinSnapshot ==
    /\ LET r == get_graph_config_src(winSrc, winData)
       IN  /\ winData' = r.self
           /\ winConfig' = Some(r.ret)
    /\ UNCHANGED <<winSrc, winHist, notWin>>


-----------------------------------------------------------------------------
(* The plugin: GRAPH_INSTANCES, its mutex, the handlers and the tick task   *)

Handlers == {"will_appear", "will_disappear", "did_receive_settings"}
NoArg == [id |-> "a", settings |-> DefaultSettings]

\* HashMap::insert / remove / get_mut on GRAPH_INSTANCES
MapInsert(m, id, gd) ==
    [x \in (DOMAIN m) \cup {id} |-> IF x = id THEN gd ELSE m[x]]
MapRemove(m, id) == [x \in (DOMAIN m) \ {id} |-> m[x]]
MapHas(m, id) == id \in DOMAIN m

\* a lock that never waits
lock_never_waits(holder) == TRUE

\* GRAPH_INSTANCES.lock().await completes only while nobody holds the mutex
lock_acquirable(holder) == holder = "free"

\* GraphData::initialize_websocket: the GraphData afterwards and the number of
\* WebSocketClient::start calls, each of which spawns run_connection and
\* returns Ok
initialize_websocket(gd) ==
    IF gd.settings.data_source = "WebSocket" /\ IsSome(gd.settings.websocket_url)
    THEN [self |-> [gd EXCEPT !.ws_client =
                                  Some([url |-> Unwrap(gd.settings.websocket_url)])],
          spawned |-> 1]
    ELSE [self |-> gd, spawned |-> 0]

\* read_sensor_value: the set of results the call can produce.  An lm-sensors
\* read yields a value or an error; a WebSocket source yields the client's
\* current value, or 0.0 without a client, and never an error.
read_sensor_value(settings, ws_client) ==
    IF settings.data_source = "LmSensors"
    THEN {[ok |-> TRUE, v |-> v] : v \in Values} \cup {[ok |-> FALSE, v |-> 0]}
    ELSE IF IsSome(ws_client)
         THEN {[ok |-> TRUE, v |-> v] : v \in Values}
         ELSE {[ok |-> TRUE, v |-> 0]}

\* title_option of the tick loop: Some(format!("{:.1}{}", value, suffix)) or None
title_option(settings, value) ==
    IF settings.show_value_text
    THEN Some([value |-> value,
               suffix |-> IF settings.data_source = "LmSensors"
                          THEN value_suffix(settings.metric_type)
                          ELSE ""])
    ELSE None

EmptyConfig == GraphConfigOf("plugin", GraphData_new(DefaultSettings))
NoRead == [ok |-> FALSE, v |-> 0]

\* the locals of one iteration of the tick loop go out of scope
TickLocalsDropped ==
    /\ tickId' = "a"
    /\ tickRead' = NoRead
    /\ tickBefore' = << >>
    /\ tickConfig' = EmptyConfig
    /\ tickTitle' = None

PlugInit ==
    /\ GRAPH_INSTANCES = << >>
    /\ lockHolder = "free"
    /\ hostVisible = {}
    /\ handlerPc = [h \in Handlers |-> "idle"]
    /\ handlerArg = [h \in Handlers |-> NoArg]
    /\ tickPc = "sleep"
    /\ ticks = 0
    /\ tickVisible = << >>
    /\ tickId = "a"
    /\ tickRead = NoRead
    /\ tickBefore = << >>
    /\ tickConfig = EmptyConfig
    /\ tickTitle = None
    /\ hostImage = [i \in Ids |-> None]
    /\ hostTitle = [i \in Ids |-> None]
    /\ wsSpawned = [by |-> "none", n |-> 0]

PlugIdle == PlugInit

(* ---- the host delivers an event: the handler is called and waits for --- *)
(* ---- the mutex                                                       --- *)

\* willAppear for an instance that is not visible
WillAppearCall(id) ==
    /\ handlerPc["will_appear"] = "idle"
    /\ id \notin hostVisible
    /\ hostVisible' = hostVisible \cup {id}
    /\ handlerPc' = [handlerPc EXCEPT !["will_appear"] = "waiting"]
    /\ handlerArg' = [handlerArg EXCEPT !["will_appear"] =
                          [id |-> id, settings |-> DefaultSettings]]
    /\ UNCHANGED <<GRAPH_INSTANCES, lockHolder, tickVars, hostVars, wsSpawned, notPlug>>

\* willDisappear for a visible instance
WillDisappearCall(id) ==
    /\ handlerPc["will_disappear"] = "idle"
    /\ id \in hostVisible
    /\ hostVisible' = hostVisible \ {id}
    /\ handlerPc' = [handlerPc EXCEPT !["will_disappear"] = "waiting"]
    /\ handlerArg' = [handlerArg EXCEPT !["will_disappear"] =
                          [id |-> id, settings |-> DefaultSettings]]
    /\ UNCHANGED <<GRAPH_INSTANCES, lockHolder, tickVars, hostVars, wsSpawned, notPlug>>

\* didReceiveSettings for any instance id
DidReceiveSettingsCall(id) ==
    /\ handlerPc["did_receive_settings"] = "idle"
    /\ handlerPc' = [handlerPc EXCEPT !["did_receive_settings"] = "waiting"]
    /\ handlerArg' = [handlerArg EXCEPT !["did_receive_settings"] =
                          [id |-> id, settings |-> DefaultSettings]]
    /\ UNCHANGED <<GRAPH_INSTANCES, lockHolder, hostVisible, tickVars, hostVars, wsSpawned, notPlug>>

\* `let mut instances = GRAPH_INSTANCES.lock().await;` of a handler.  The
\* settings argument s of the call is first read after the lock is taken.
HandlerLock(h, s) ==
    /\ handlerPc[h] = "waiting"
    /\ h = "will_disappear" => s = DefaultSettings
    /\ lock_acquirable(lockHolder)
    /\ lockHolder' = h
    /\ handlerPc' = [handlerPc EXCEPT ![h] = "locked"]
    /\ handlerArg' = [handlerArg EXCEPT ![h].settings = s]
    /\ UNCHANGED <<GRAPH_INSTANCES, hostVisible, tickVars, hostVars, wsSpawned, notPlug>>

\* GraphAction::will_appear after the lock: new, initialize_websocket, insert
will_appear(m, id, settings) ==
    LET init == initialize_websocket(GraphData_new(settings))
    IN  [instances |-> MapInsert(m, id, init.self), spawned |-> init.spawned]

\* GraphAction::will_disappear after the lock: remove
will_disappear(m, id) == MapRemove(m, id)

\* did_receive_settings that starts a client whenever the new source is WebSocket
did_receive_settings_always_init(m, id, settings) ==
    IF MapHas(m, id)
    THEN LET graph_data == [m[id] EXCEPT !.settings = settings]
             init == initialize_websocket(graph_data)
         IN  [instances |-> [m EXCEPT ![id] = init.self], spawned |-> init.spawned]
    ELSE [instances |-> m, spawned |-> 0]

\* did_receive_settings that builds the instance anew
did_receive_settings_new(m, id, settings) ==
    IF MapHas(m, id)
    THEN LET old_source == m[id].settings.data_source
             graph_data == [GraphData_new(settings) EXCEPT !.ws_client = m[id].ws_client]
             init == initialize_websocket(graph_data)
         IN  IF settings.data_source = "WebSocket" /\ old_source /= "WebSocket"
             THEN [instances |-> [m EXCEPT ![id] = init.self], spawned |-> init.spawned]
             ELSE [instances |-> [m EXCEPT ![id] = graph_data], spawned |-> 0]
    ELSE [instances |-> m, spawned |-> 0]

\* GraphAction::did_receive_settings after the lock
did_receive_settings(m, id, settings) ==
    IF MapHas(m, id)
    THEN LET old_source == m[id].settings.data_source
             graph_data == [m[id] EXCEPT !.settings = settings]
             init == initialize_websocket(graph_data)
         IN  IF settings.data_source = "WebSocket" /\ old_source /= "WebSocket"
             THEN [instances |-> [m EXCEPT ![id] = init.self], spawned |-> init.spawned]
             ELSE [instances |-> [m EXCEPT ![id] = graph_data], spawned |-> 0]
    ELSE [instances |-> m, spawned |-> 0]

HandlerReturn(h) ==
    /\ lockHolder' = "free"
    /\ handlerPc' = [handlerPc EXCEPT ![h] = "idle"]
    /\ handlerArg' = [handlerArg EXCEPT ![h] = NoArg]
    /\ UNCHANGED <<hostVisible, tickVars, hostVars, notPlug>>

WillAppearBody ==
    /\ handlerPc["will_appear"] = "locked"
    /\ LET ret == will_appear(GRAPH_INSTANCES, handlerArg["will_appear"].id,
                              handlerArg["will_appear"].settings)
       IN  /\ GRAPH_INSTANCES' = ret.instances
           /\ wsSpawned' = [by |-> "will_appear", n |-> ret.spawned]
    /\ HandlerReturn("will_appear")

WillDisappearBody ==
    /\ handlerPc["will_disappear"] = "locked"
    /\ GRAPH_INSTANCES' = will_disappear(GRAPH_INSTANCES, handlerArg["will_disappear"].id)
    /\ wsSpawned' = [by |-> "will_disappear", n |-> 0]
    /\ HandlerReturn("will_disappear")

DidReceiveSettingsBody ==
    /\ handlerPc["did_receive_settings"] = "locked"
    /\ LET ret == did_receive_settings(GRAPH_INSTANCES,
                                       handlerArg["did_receive_settings"].id,
                                       handlerArg["did_receive_settings"].settings)
       IN  /\ GRAPH_INSTANCES' = ret.instances
           /\ wsSpawned' = [by |-> "did_receive_settings", n |-> ret.spawned]
    /\ HandlerReturn("did_receive_settings")

(* ---- start_sensor_monitoring: the spawned task ------------------------- *)

\* the orders in which visible_instances can list a set of instances
RECURSIVE Orderings(_)
Orderings(S) ==
    IF S = {} THEN {<< >>}
    ELSE UNION {{<<x>> \o rest : rest \in Orderings(S \ {x})} : x \in S}

handlerFrame == <<hostVisible, handlerPc, handlerArg, wsSpawned>>

\* interval.tick().await; let visible = visible_instances(UUID).await;
TickWake ==
    /\ tickPc = "sleep"
    /\ ticks < MaxTicks
    /\ ticks' = ticks + 1
    /\ tickVisible' \in Orderings(hostVisible)
    /\ tickPc' = "iter"
    /\ UNCHANGED <<GRAPH_INSTANCES, lockHolder, handlerFrame, tickId, tickRead,
                   tickBefore, tickConfig, tickTitle, hostVars, notPlug>>

\* for instance in visible { ... let mut instances = GRAPH_INSTANCES.lock().await;
TickLock ==
    /\ tickPc = "iter"
    /\ tickVisible /= << >>
    /\ lock_acquirable(lockHolder)
    /\ lockHolder' = "tick"
    /\ tickId' = Head(tickVisible)
    /\ tickVisible' = Tail(tickVisible)
    /\ tickBefore' = IF MapHas(GRAPH_INSTANCES, Head(tickVisible))
                     THEN GRAPH_INSTANCES[Head(tickVisible)].data_points
                     ELSE << >>
    /\ tickPc' = "locked"
    /\ UNCHANGED <<GRAPH_INSTANCES, handlerFrame, ticks, tickRead, tickConfig,
                   tickTitle, hostVars, notPlug>>

\* the for loop is exhausted: back to interval.tick().await
TickLoopEnd ==
    /\ tickPc = "iter"
    /\ tickVisible = << >>
    /\ tickPc' = "sleep"
    /\ UNCHANGED <<GRAPH_INSTANCES, lockHolder, handlerFrame, ticks, tickVisible, tickId,
                   tickRead, tickBefore, tickConfig, tickTitle, hostVars, notPlug>>

\* entry(instance_id).or_insert_with(..) for get_mut: a missing instance is re-created
TickSkipMissing_or_insert ==
    /\ tickPc = "locked"
    /\ ~MapHas(GRAPH_INSTANCES, tickId)
    /\ GRAPH_INSTANCES' = MapInsert(GRAPH_INSTANCES, tickId, GraphData_new(DefaultSettings))
    /\ lockHolder' = "free"
    /\ tickPc' = "iter"
    /\ TickLocalsDropped
    /\ UNCHANGED <<handlerFrame, ticks, tickVisible, hostVars, notPlug>>

\* instances.get_mut(&instance_id) is None: the guard drops at the end of the body
TickSkipMissing ==
    /\ tickPc = "locked"
    /\ ~MapHas(GRAPH_INSTANCES, tickId)
    /\ lockHolder' = "free"
    /\ tickPc' = "iter"
    /\ TickLocalsDropped
    /\ UNCHANGED <<GRAPH_INSTANCES, handlerFrame, ticks, tickVisible, hostVars, notPlug>>

\* read_sensor_value(&graph_data.settings, ws_client).await, the mutex held
TickRead ==
    /\ tickPc = "locked"
    /\ MapHas(GRAPH_INSTANCES, tickId)
    /\ tickRead' \in read_sensor_value(GRAPH_INSTANCES[tickId].settings,
                                       GRAPH_INSTANCES[tickId].ws_client)
    /\ tickPc' = "got_value"
    /\ UNCHANGED <<GRAPH_INSTANCES, lockHolder, handlerFrame, ticks, tickVisible, tickId,
                   tickBefore, tickConfig, tickTitle, hostVars, notPlug>>

\* read_sensor_value(..).await.unwrap_or(0.0): a failed read is plotted as 0.0
TickReadFailed_unwrap_or ==
    /\ tickPc = "got_value"
    /\ ~tickRead.ok
    /\ GRAPH_INSTANCES' = [GRAPH_INSTANCES EXCEPT
                               ![tickId] = add_data_point_cap(@, 0, MAX_DATA_POINTS)]
    /\ tickConfig' = GraphConfigOf("plugin", GRAPH_INSTANCES'[tickId])
    /\ tickTitle' = None
    /\ lockHolder' = "free"
    /\ tickPc' = "set_image"
    /\ UNCHANGED <<handlerFrame, ticks, tickVisible, tickId, tickRead, tickBefore,
                   hostVars, notPlug>>

\* the read returned Err: `if let Ok(value)` is not taken, the guard drops
TickReadFailed ==
    /\ tickPc = "got_value"
    /\ ~tickRead.ok
    /\ lockHolder' = "free"
    /\ tickPc' = "iter"
    /\ TickLocalsDropped
    /\ UNCHANGED <<GRAPH_INSTANCES, handlerFrame, ticks, tickVisible, hostVars, notPlug>>

\* the body of `if let Ok(value)`: what it does to the instance and what it
\* keeps locally: [gd, config, title]
tick_body(gd, value) ==
    LET appended == add_data_point(gd, value)
        got      == get_graph_config(appended)
    IN  [gd     |-> got.self,
         config |-> got.ret,
         title  |-> title_option(got.self.settings, value)]

\* add_data_point, get_graph_config, title_option, generate_graph_data_uri.
\* rendered: the encoder returned Ok(data_uri), so the guard is dropped and the
\* hand-off follows; otherwise the guard drops at the end of the body.
TickProcess(rendered) ==
    /\ tickPc = "got_value"
    /\ tickRead.ok
    /\ LET b == tick_body(GRAPH_INSTANCES[tickId], tickRead.v)
       IN  /\ GRAPH_INSTANCES' = [GRAPH_INSTANCES EXCEPT ![tickId] = b.gd]
           /\ IF rendered
              THEN /\ tickConfig' = b.config
                   /\ tickTitle' = b.title
                   /\ tickPc' = "set_image"
                   /\ UNCHANGED <<tickId, tickRead, tickBefore>>
              ELSE /\ tickPc' = "iter"
                   /\ TickLocalsDropped
    /\ lockHolder' = "free"
    /\ UNCHANGED <<handlerFrame, ticks, tickVisible, hostVars, notPlug>>

\* instance.set_image(Some(data_uri), None).await
TickSetImage ==
    /\ tickPc = "set_image"
    /\ hostImage' = [hostImage EXCEPT ![tickId] = Some(tickConfig)]
    /\ tickPc' = "set_title"
    /\ UNCHANGED <<GRAPH_INSTANCES, lockHolder, handlerFrame, ticks, tickVisible, tickId,
                   tickRead, tickBefore, tickConfig, tickTitle, hostTitle, notPlug>>

\* instance.set_title(Some(title_text) or None, None).await
TickSetTitle ==
    /\ tickPc = "set_title"
    /\ hostTitle' = [hostTitle EXCEPT ![tickId] = Some(tickTitle)]
    /\ tickPc' = "iter"
    /\ TickLocalsDropped
    /\ UNCHANGED <<GRAPH_INSTANCES, lockHolder, handlerFrame, ticks, tickVisible,
                   hostImage, notPlug>>

TickStep ==
    \/ TickWake \/ TickLock \/ TickLoopEnd \/ TickSkipMissing \/ TickRead
    \/ TickReadFailed \/ TickProcess(TRUE) \/ TickProcess(FALSE)
    \/ TickSetImage \/ TickSetTitle

-----------------------------------------------------------------------------
(* gfx.rs: draw_line_segment.  The coordinates are u32 cast to i32; all     *)
(* values of the model stay far inside the i32 range.                       *)

Abs(a) == IF a < 0 THEN -a ELSE a
Max(a, b) == IF a >= b THEN a ELSE b

\* the guard of every put_pixel of the line: inside the canvas
in_canvas(x, y) == x >= 0 /\ x < ICON_SIZE /\ y >= 0 /\ y < ICON_SIZE

\* the locals with `let sx = 1;`: the direction of x is not taken from the endpoints
line_setup_sx(x0, y0, x1, y1) ==
    [x0 |-> x0, y0 |-> y0, x1 |-> x1, y1 |-> y1,
     dx |-> Abs(x1 - x0), dy |-> Abs(y1 - y0),
     sx |-> 1,
     sy |-> IF y0 < y1 THEN 1 ELSE -1,
     err |-> Abs(x1 - x0) - Abs(y1 - y0),
     x |-> x0, y |-> y0,
     writes |-> << >>, steps |-> 0, done |-> FALSE]

\* the locals of draw_line_segment before its loop
line_setup(x0, y0, x1, y1) ==
    [x0 |-> x0, y0 |-> y0, x1 |-> x1, y1 |-> y1,
     dx |-> Abs(x1 - x0), dy |-> Abs(y1 - y0),
     sx |-> IF x0 < x1 THEN 1 ELSE -1,
     sy |-> IF y0 < y1 THEN 1 ELSE -1,
     err |-> Abs(x1 - x0) - Abs(y1 - y0),
     x |-> x0, y |-> y0,
     writes |-> << >>, steps |-> 0, done |-> FALSE]

\* one iteration with the break tested before the pixel is plotted
line_iter_break_first(s) ==
    IF s.x = s.x1 /\ s.y = s.y1
    THEN [s EXCEPT !.done = TRUE]
    ELSE LET w   == IF in_canvas(s.x, s.y) THEN Append(s.writes, <<s.x, s.y>>) ELSE s.writes
             e2  == 2 * s.err
             mx  == e2 > -s.dy
             my  == e2 < s.dx
         IN  [s EXCEPT !.writes = w,
                       !.err = s.err - (IF mx THEN s.dy ELSE 0) + (IF my THEN s.dx ELSE 0),
                       !.x = IF mx THEN s.x + s.sx ELSE s.x,
                       !.y = IF my THEN s.y + s.sy ELSE s.y,
                       !.steps = s.steps + 1]

\* one iteration that plots the pixel again after it has moved
line_iter_plot_twice(s) ==
    LET w == IF in_canvas(s.x, s.y) THEN Append(s.writes, <<s.x, s.y>>) ELSE s.writes
    IN  IF s.x = s.x1 /\ s.y = s.y1
        THEN [s EXCEPT !.writes = w, !.done = TRUE]
        ELSE LET e2  == 2 * s.err
                 mx  == e2 > -s.dy
                 my  == e2 < s.dx
                 nx  == IF mx THEN s.x + s.sx ELSE s.x
                 ny  == IF my THEN s.y + s.sy ELSE s.y
             IN  [s EXCEPT !.writes = IF in_canvas(nx, ny) THEN Append(w, <<nx, ny>>) ELSE w,
                           !.err = s.err - (IF mx THEN s.dy ELSE 0) + (IF my THEN s.dx ELSE 0),
                           !.x = nx,
                           !.y = ny,
                           !.steps = s.steps + 1]

\* one iteration of the loop of draw_line_segment: plot if inside the canvas,
\* break at the endpoint, else step x and/or y by the error term
line_iter(s) ==
    LET w == IF in_canvas(s.x, s.y) THEN Append(s.writes, <<s.x, s.y>>) ELSE s.writes
    IN  IF s.x = s.x1 /\ s.y = s.y1
        THEN [s EXCEPT !.writes = w, !.done = TRUE]
        ELSE LET e2  == 2 * s.err
                 mx  == e2 > -s.dy
                 my  == e2 < s.dx
             IN  [s EXCEPT !.writes = w,
                           !.err = s.err - (IF mx THEN s.dy ELSE 0) + (IF my THEN s.dx ELSE 0),
                           !.x = IF mx THEN s.x + s.sx ELSE s.x,
                           !.y = IF my THEN s.y + s.sy ELSE s.y,
                           !.steps = s.steps + 1]

\* endpoints near the bottom-right corner of the canvas, two of them outside
Coords == (ICON_SIZE - LineSpan)..(ICON_SIZE + 1)

LineIdle ==
    /\ lnA = <<0, 0>>
    /\ lnB = <<0, 0>>
    /\ lnCall = "done"
    /\ ln = line_setup(0, 0, 0, 0)
    /\ lnFirst = << >>

LineInit ==
    /\ lnA \in Coords \X Coords
    /\ lnB \in Coords \X Coords
    /\ lnCall = "first"
    /\ ln = line_setup(lnA[1], lnA[2], lnB[1], lnB[2])
    /\ lnFirst = << >>

\* one iteration of the loop of the running call
LineIter ==
    /\ lnCall \in {"first", "second"}
    /\ ~ln.done
    /\ ln' = line_iter(ln)
    /\ UNCHANGED <<lnA, lnB, lnCall, lnFirst, notLine>>

\* draw_line_segment(A, B) has returned: call draw_line_segment(B, A)
LineSwap ==
    /\ lnCall = "first"
    /\ ln.done
    /\ lnFirst' = ln.writes
    /\ ln' = line_setup(lnB[1], lnB[2], lnA[1], lnA[2])
    /\ lnCall' = "second"
    /\ UNCHANGED <<lnA, lnB, notLine>>

\* draw_line_segment(B, A) has returned
LineReturn ==
    /\ lnCall = "second"
    /\ ln.done
    /\ lnCall' = "done"
    /\ UNCHANGED <<lnA, lnB, ln, lnFirst, notLine>>

-----------------------------------------------------------------------------
(* gfx.rs: generate_graph and generate_gauge.                               *)
(* An f32 is an integer or a quotient num/den of integers (den > 0).  The   *)
(* sample values, minima and maxima of SpecRender make every quotient the   *)
(* code forms a multiple of 1/8, so that the f32 results are these exact    *)
(* values; the x placement i/(n-1)*width is exact for the truncation up to  *)
(* ten samples.  A panic (an index or a pixel outside its range, a u32      *)
(* subtraction below zero) is reported by the `panic` field of a result.    *)

\* `q.round() as u32`: to the nearest whole number
FloatToU32_round(num, den) == IF num <= 0 THEN 0 ELSE (2 * num + den) \div (2 * den)

\* `q as u32` for q = num/den: truncation, negative values saturate to 0
FloatToU32(num, den) == IF num <= 0 THEN 0 ELSE num \div den

\* f32::clamp(0.0, 1.0) of num/den, as a quotient <<num, den>>
clamp01(num, den) ==
    IF num < 0 THEN <<0, 1>> ELSE IF num > den THEN <<1, 1>> ELSE <<num, den>>

\* (val - min_val) / range as a quotient with a positive denominator
quotient(val, min_val, range) ==
    IF range > 0 THEN <<val - min_val, range>> ELSE <<min_val - val, -range>>

\* the plot height with the padding taken off once
graph_height_one_padding == ICON_SIZE - GRAPH_PADDING - TITLE_HEIGHT

graph_height == ICON_SIZE - GRAPH_PADDING * 2 - TITLE_HEIGHT

\* the plot width without the padding taken off
graph_width_no_padding == ICON_SIZE

graph_width == ICON_SIZE - GRAPH_PADDING * 2

\* the y of normalize_points without the inversion `height - ...`
normalize_y_not_inverted(val, min_val, range, height) ==
    LET q == quotient(val, min_val, range)
        n == clamp01(q[1], q[2])
    IN  [y |-> FloatToU32(n[1] * height, n[2]), panic |-> FALSE]

\* the y of normalize_points without the clamp to [0, 1]
normalize_y_no_clamp(val, min_val, range, height) ==
    LET q == quotient(val, min_val, range)
        d == FloatToU32(q[1] * height, q[2])
    IN  [y |-> height - d, panic |-> d > height]

\* the y of one sample in normalize_points, range /= 0:
\* height - (normalized * height as f32) as u32
normalize_y(val, min_val, range, height) ==
    LET q == quotient(val, min_val, range)
        n == clamp01(q[1], q[2])
        d == FloatToU32(n[1] * height, n[2])
    IN  [y |-> height - d, panic |-> d > height]

\* normalize_points without the `range == 0.0` branch: the quotient by the
\* zero range is +inf, -inf or NaN, which clamp and `as u32` turn into 1, 0, 0
normalize_points_div_zero(data, min_val, max_val, width, height) ==
    LET range == max_val - min_val
        n     == Len(data)
        xOf(i) == IF n > 1 THEN FloatToU32((i - 1) * width, n - 1) ELSE width \div 2
        yOf(i) == IF range = 0
                  THEN IF data[i] > min_val THEN 0 ELSE height
                  ELSE normalize_y(data[i], min_val, range, height).y
    IN  [points |-> [i \in 1..n |-> <<xOf(i), yOf(i)>>], panic |-> FALSE]

\* normalize_points: [points |-> sequence of <<x, y>>, panic]
normalize_points(data, min_val, max_val, width, height) ==
    LET range == max_val - min_val
        n     == Len(data)
        xOf(i) == IF range = 0
                  THEN FloatToU32((i - 1) * width, Max(n - 1, 1))
                  ELSE IF n > 1 THEN FloatToU32((i - 1) * width, n - 1)
                       ELSE width \div 2
        yOf(i) == IF range = 0
                  THEN [y |-> height \div 2, panic |-> FALSE]
                  ELSE normalize_y(data[i], min_val, range, height)
    IN  [points |-> [i \in 1..n |-> <<xOf(i), yOf(i).y>>],
         panic  |-> \E i \in 1..n : yOf(i).panic]

\* interpolate_y_at_x: [y, panic].  points.len() - 1 underflows on an empty slice.
interpolate_y_at_x(points, x) ==
    LET n == Len(points)
        brackets == {i \in 1..(n - 1) : x >= points[i][1] /\ x <= points[i + 1][1]}
    IN  IF n = 0 THEN [y |-> 0, panic |-> TRUE]
        ELSE IF brackets /= {}
        THEN LET i  == CHOOSE k \in brackets : \A j \in brackets : k <= j
                 x0 == points[i][1]
                 y0 == points[i][2]
                 x1 == points[i + 1][1]
                 y1 == points[i + 1][2]
             IN  IF x1 = x0 THEN [y |-> y0, panic |-> FALSE]
                 ELSE [y |-> FloatToU32(y0 * (x1 - x0) + (x - x0) * (y1 - y0), x1 - x0),
                       panic |-> FALSE]
        ELSE IF x < points[1][1] THEN [y |-> points[1][2], panic |-> FALSE]
        ELSE [y |-> points[n][2], panic |-> FALSE]

\* the alpha byte without `.max(1)`: 0.0 / 0.0 is NaN, and NaN as u8 is 0
gradient_alpha_no_max(py, y, bottom_y) ==
    IF bottom_y = y THEN 0
    ELSE FloatToU32((bottom_y - py) * 6 * 255, (bottom_y - y) * 10)

\* draw_gradient_fill: the alpha byte of gradient_color at row py of a column
\* whose line is at row y: ((1.0 - distance / range) * 0.6 * 255.0) as u8.
\* Exact at distance = 0 and distance = range; where the quotient is a whole
\* number in between, the f32 product can fall one short of it.
gradient_alpha(py, y, bottom_y) ==
    LET distance_from_line == py - y
        gradient_range == Max(bottom_y - y, 1)
    IN  FloatToU32((gradient_range - distance_from_line) * 6 * 255, gradient_range * 10)

\* the body of `for x in min_x..=max_x` of draw_gradient_fill for one x:
\* the pixels read by get_pixel and written by put_pixel, and the alpha of
\* the first and the last row of `for py in y..=bottom_y`
fill_column(points, x, offset_x, offset_y, bottom_y) ==
    LET line == interpolate_y_at_x(points, x)
        rows == {r \in line.y..bottom_y :
                    x + offset_x < ICON_SIZE /\ r + offset_y < ICON_SIZE}
    IN  [touched |-> {<<x + offset_x, py + offset_y>> : py \in rows},
         alpha |-> IF {line.y, bottom_y} \subseteq rows
                   THEN Some([line_y |-> line.y,
                              line   |-> gradient_alpha(line.y, line.y, bottom_y),
                              bottom |-> gradient_alpha(bottom_y, line.y, bottom_y)])
                   ELSE None,
         panic |-> line.panic]

\* draw_gradient_fill: the range of its column loop
fill_min_x(points) == CHOOSE a \in {points[i][1] : i \in 1..Len(points)} :
                          \A i \in 1..Len(points) : a <= points[i][1]
fill_max_x(points) == CHOOSE a \in {points[i][1] : i \in 1..Len(points)} :
                          \A i \in 1..Len(points) : a >= points[i][1]

\* draw_line_segment run to its return
RECURSIVE line_run(_)
line_run(s) == IF s.done THEN s ELSE line_run(line_iter(s))

draw_line_segment(x0, y0, x1, y1) == line_run(line_setup(x0, y0, x1, y1)).writes

\* draw_point
draw_point(x, y) == IF x < ICON_SIZE /\ y < ICON_SIZE THEN {<<x, y>>} ELSE {}

\* draw_connected_line: the pixels of segment i (from 0), or of the single point
connected_line_part(points, i, offset_x, offset_y) ==
    IF Len(points) < 2
    THEN IF Len(points) = 1
         THEN draw_point(points[1][1] + offset_x, points[1][2] + offset_y)
         ELSE {}
    ELSE LET seg == draw_line_segment(
                        points[i + 1][1] + offset_x, points[i + 1][2] + offset_y,
                        points[i + 2][1] + offset_x, points[i + 2][2] + offset_y)
         IN  {seg[k] : k \in 1..Len(seg)}

\* generate_gauge: center and radii of the horseshoe
gauge_center_x == ICON_SIZE \div 2
gauge_center_y == ICON_SIZE \div 2 + 15
outer_radius == 55
arc_thickness == 18
inner_radius == outer_radius - arc_thickness

\* draw_thick_arc: the bounding box it iterates, `min..max` exclusive of max
arc_min(c, outer) == FloatToU32(Max(c - outer, 0), 1)
arc_max(c, outer) == FloatToU32(IF c + outer < ICON_SIZE THEN c + outer ELSE ICON_SIZE, 1)

\* draw_thick_arc: the pixels of the bounding box inside the ring
\* inner <= sqrt(dx*dx + dy*dy) <= outer.  put_pixel is called, without a
\* guard, on those of them whose angle lies in the arc.
arc_ring(cx, cy, inner, outer) ==
    {p \in (arc_min(cx, outer)..(arc_max(cx, outer) - 1))
              \X (arc_min(cy, outer)..(arc_max(cy, outer) - 1)) :
        LET d2 == (p[1] - cx) * (p[1] - cx) + (p[2] - cy) * (p[2] - cy)
        IN  d2 >= inner * inner /\ d2 <= outer * outer}

\* current_value: config.data_points.last().copied().unwrap_or(0.0)
current_value(config) ==
    IF config.data_points = << >> THEN 0
    ELSE config.data_points[Len(config.data_points)]

\* is_warning with `>=` for `>`
is_warning_ge(config) ==
    IsSome(config.threshold) /\ current_value(config) >= Unwrap(config.threshold)

\* is_warning: config.threshold.map(|t| current_value > t).unwrap_or(false)
is_warning(config) ==
    IsSome(config.threshold) /\ current_value(config) > Unwrap(config.threshold)

\* line_color of generate_graph, text_color of generate_gauge: a field of
\* config.color_scheme
line_color(config) == IF is_warning(config) THEN "warning_color" ELSE "normal_color"

\* draw_title(&mut img, &config.title, &line_color)
draw_title(config) == Some([title |-> config.title, color |-> line_color(config)])

\* An angle is a whole number of 1/10000 degrees; 2 * PI is Deg(360).
Deg(d) == d * 10000

\* the direction <<cos, sin>> of an angle in [0, 360), times 10^6 or as the
\* lattice direction itself.  No ring pixel lies within 7 * 10^-5 rad of an
\* angle of this table without lying on it, so neither the 10^-6 of the table
\* nor the rounding of the f32 angles changes a comparison.
Dir(a) ==
    CASE a = Deg(0)   -> <<1, 0>>
      [] a = Deg(18)  -> <<951057, 309017>>
      [] a = Deg(45)  -> <<1, 1>>
      [] a = Deg(135) -> <<-1, 1>>
      [] a = 2362500  -> <<-555570, -831470>>
      [] a = 3375000  -> <<923880, -382683>>
      [] a = Deg(351) -> <<987688, -156434>>

\* the quadrant 0..3 of dy.atan2(dx), brought into [0, 2 * PI), for (dx, dy) /= (0, 0)
PixelQuadrant(dx, dy) ==
    IF dx > 0 /\ dy >= 0 THEN 0
    ELSE IF dx <= 0 /\ dy > 0 THEN 1
    ELSE IF dx < 0 /\ dy <= 0 THEN 2
    ELSE 3

\* sin(angle of the pixel - a), up to a positive factor, for a in the pixel's quadrant
Cross(a, dx, dy) == Dir(a)[1] * dy - Dir(a)[2] * dx

\* `angle >= a` for the angle of the pixel (dx, dy) from the center.  A pixel
\* on the ray of `a` itself has the very f32 value of `a` (atan2 rounds
\* 3 * PI / 4 and PI / 4 to the values 135 and 45 degrees convert to).
angle_ge(dx, dy, a) ==
    IF a <= 0 THEN TRUE
    ELSE IF a >= Deg(360) THEN FALSE
    ELSE \/ PixelQuadrant(dx, dy) > a \div Deg(90)
         \/ PixelQuadrant(dx, dy) = a \div Deg(90) /\ Cross(a, dx, dy) >= 0

\* `angle <= a`
angle_le(dx, dy, a) ==
    IF a < 0 THEN FALSE
    ELSE IF a >= Deg(360) THEN TRUE
    ELSE \/ PixelQuadrant(dx, dy) < a \div Deg(90)
         \/ PixelQuadrant(dx, dy) = a \div Deg(90) /\ Cross(a, dx, dy) <= 0

\* in_range with the wrapped test whatever the order of start and end
in_range_wrapped(dx, dy, start_angle, end_angle) ==
    LET start == IF start_angle < 0 THEN start_angle + Deg(360) ELSE start_angle
        end   == IF end_angle < 0 THEN end_angle + Deg(360) ELSE end_angle
    IN  angle_ge(dx, dy, start) \/ angle_le(dx, dy, end)

\* draw_thick_arc: in_range.  Only a negative start or end is brought into
\* [0, 2 * PI); one above 2 * PI is compared as it is.
in_range(dx, dy, start_angle, end_angle) ==
    LET start == IF start_angle < 0 THEN start_angle + Deg(360) ELSE start_angle
        end   == IF end_angle < 0 THEN end_angle + Deg(360) ELSE end_angle
    IN  IF start <= end
        THEN angle_ge(dx, dy, start) /\ angle_le(dx, dy, end)
        ELSE angle_ge(dx, dy, start) \/ angle_le(dx, dy, end)

\* draw_thick_arc: the pixels it passes to put_pixel
draw_thick_arc(cx, cy, inner, outer, start_angle, end_angle) ==
    {p \in arc_ring(cx, cy, inner, outer) :
        in_range(p[1] - cx, p[2] - cy, start_angle, end_angle)}

\* generate_gauge: the angles of the horseshoe
start_angle == Deg(135)
end_angle == Deg(45)
arc_range == end_angle - start_angle + Deg(360)

\* generate_gauge: percentage, as a quotient <<num, den>>
percentage(config) ==
    LET range == config.max_value - config.min_value
    IN  IF range > 0
        THEN clamp01(current_value(config) - config.min_value, range)
        ELSE <<0, 1>>

\* threshold_percentage with 0 for a configured threshold on an empty range
threshold_percentage_zero(config) ==
    LET range == config.max_value - config.min_value
    IN  IF IsSome(config.threshold)
        THEN IF range > 0
             THEN clamp01(Unwrap(config.threshold) - config.min_value, range)
             ELSE <<0, 1>>
        ELSE <<4, 5>>

\* generate_gauge: threshold_percentage, 0.8 without a threshold and on an
\* empty range
threshold_percentage(config) ==
    LET range == config.max_value - config.min_value
    IN  IF IsSome(config.threshold) /\ range > 0
        THEN clamp01(Unwrap(config.threshold) - config.min_value, range)
        ELSE <<4, 5>>

\* start_angle + (percentage * arc_range)
angle_at(q) == start_angle + (arc_range * q[1]) \div q[2]

\* gauge_arcs with a fill colour that does not ask for a threshold
gauge_arcs_no_is_some(config) ==
    LET filled_angle    == angle_at(percentage(config))
        threshold_angle == angle_at(threshold_percentage(config))
        over == percentage(config)[1] * threshold_percentage(config)[2]
                    > threshold_percentage(config)[1] * percentage(config)[2]
    IN  << [start |-> start_angle, end |-> threshold_angle, color |-> "normal_bg_color"],
           [start |-> threshold_angle, end |-> end_angle,
            color |-> IF IsSome(config.threshold) THEN "warning_bg_color"
                      ELSE "normal_bg_color"],
           [start |-> start_angle, end |-> filled_angle,
            color |-> IF over THEN "warning_color" ELSE "normal_color"] >>

\* generate_gauge: the three draw_thick_arc calls, in order
gauge_arcs(config) ==
    LET filled_angle    == angle_at(percentage(config))
        threshold_angle == angle_at(threshold_percentage(config))
        over == percentage(config)[1] * threshold_percentage(config)[2]
                    > threshold_percentage(config)[1] * percentage(config)[2]
    IN  << [start |-> start_angle, end |-> threshold_angle, color |-> "normal_bg_color"],
           [start |-> threshold_angle, end |-> end_angle,
            color |-> IF IsSome(config.threshold) THEN "warning_bg_color"
                      ELSE "normal_bg_color"],
           [start |-> start_angle, end |-> filled_angle,
            color |-> IF over /\ IsSome(config.threshold) THEN "warning_color"
                      ELSE "normal_color"] >>

\* the sample values, and the <<min_value, max_value>> pairs, of the rendered
\* configs: far below and far above the range, min > max and min = max
SampleVals == {-100, 3, 1000}
Ranges == {<<0, 8>>, <<8, 0>>, <<4, 4>>, <<0, 4>>}

RECURSIVE SeqsUpTo(_, _)
SeqsUpTo(S, n) ==
    IF n = 0 THEN {<< >>}
    ELSE LET shorter == SeqsUpTo(S, n - 1)
         IN  shorter \cup {Append(q, v) : q \in {r \in shorter : Len(r) = n - 1}, v \in S}

\* the full windows of MAX_DATA_POINTS samples that alternate between two values
FullWindows ==
    {[i \in 1..MAX_DATA_POINTS |-> IF i % 2 = 1 THEN a ELSE b] : a, b \in SampleVals}

\* the gauge scenario: current = 90, min = 0, max = 100, threshold = 80
ScenarioConfig ==
    [data_points |-> <<90>>, max_value |-> 100, min_value |-> 0,
     threshold |-> Some(80), title |-> <<"CPU Temp">>]

\* one-sample windows with a threshold below, inside and above the range
GaugeThresholdConfigs ==
    {[data_points |-> <<v>>, max_value |-> r[2], min_value |-> r[1],
      threshold |-> Some(t), title |-> <<"CPU Temp">>] :
        v \in SampleVals, t \in SampleVals, r \in Ranges}

\* a window of the GD_MAX_DATA_POINTS samples graph_data.rs keeps
GdWindowConfigs ==
    {[data_points |-> [i \in 1..GD_MAX_DATA_POINTS |->
                          IF i % 3 = 0 THEN 1000 ELSE IF i % 3 = 1 THEN -100 ELSE 3],
      max_value |-> r[2], min_value |-> r[1],
      threshold |-> None, title |-> <<"CPU Temp">>] : r \in Ranges}

RenderConfigs ==
    {[data_points |-> d, max_value |-> r[2], min_value |-> r[1],
      threshold |-> None, title |-> <<"CPU Temp">>] :
        d \in SeqsUpTo(SampleVals, MaxSamples) \cup FullWindows, r \in Ranges}
    \cup GaugeThresholdConfigs
    \cup GdWindowConfigs
    \cup {ScenarioConfig}

\* generate_gauge reads the last sample only: it is run on the windows of at
\* most one sample and on the full ones
RenderKinds(config) ==
    IF Len(config.data_points) <= 1 \/ Len(config.data_points) = MAX_DATA_POINTS
    THEN {"graph", "gauge"}
    ELSE {"graph"}

\* the configs of SpecCompose: samples at, between, below and above the
\* bounds, with and without a threshold
ComposeVals == {-100, 0, 4, 8, 50, 100, 1000}
ComposeRanges == {<<0, 8>>, <<8, 0>>, <<4, 4>>, <<0, 100>>}
ComposeThresholds == {None, Some(4), Some(80)}

\* one window of every length up to MAX_DATA_POINTS
LongWindows ==
    {[i \in 1..n |-> IF i % 2 = 1 THEN 0 ELSE 8] : n \in 1..MAX_DATA_POINTS}

ComposeConfigs ==
    {[data_points |-> d, max_value |-> r[2], min_value |-> r[1],
      threshold |-> t, title |-> <<"CPU Temp">>] :
        d \in SeqsUpTo(ComposeVals, MaxSamples) \cup LongWindows, r \in ComposeRanges,
        t \in ComposeThresholds}

\* the colours generate_graph and generate_gauge write with put_pixel
Colours == {"normal_color", "warning_color", "normal_bg_color", "warning_bg_color"}

\* ImageBuffer::from_pixel(ICON_SIZE, ICON_SIZE, Rgba([0, 0, 0, 255])): no pixel
\* has been blended or written yet.  `blended` holds the runs of rows the
\* gradient fill has blended, one per column; `px` the pixels that hold exactly
\* a colour written with put_pixel
NewImage == [blended |-> {}, px |-> [c \in Colours |-> {}]]

\* put_pixels that leaves the blended pixels as they are
put_pixels_under(img, pixels, color) ==
    LET free == {p \in pixels : ~\E run \in img.blended :
                     run.x = p[1] /\ run.lo <= p[2] /\ p[2] <= run.hi}
    IN  [blended |-> img.blended,
         px |-> [c \in Colours |-> IF c = color THEN img.px[c] \cup free
                                                ELSE img.px[c] \ free]]

\* img.put_pixel(x, y, color) for every pixel of a set: the colour replaces
\* whatever the pixel held
put_pixels(img, pixels, color) ==
    [blended |-> img.blended,
     px |-> [c \in Colours |-> IF c = color THEN img.px[c] \cup pixels
                                            ELSE img.px[c] \ pixels]]

\* put_pixel(x, y, blend_colors(*img.get_pixel(x, y), gradient_color)) for the
\* rows of one column: the pixels hold a blend afterwards
blend_pixels(img, pixels) ==
    LET ys == {q[2] : q \in pixels}
        run == [x  |-> (CHOOSE q \in pixels : TRUE)[1],
                lo |-> CHOOSE y \in ys : \A z \in ys : y <= z,
                hi |-> CHOOSE y \in ys : \A z \in ys : y >= z]
    IN  [blended |-> IF pixels = {} THEN img.blended ELSE img.blended \cup {run},
         px |-> [c \in Colours |-> img.px[c] \ pixels]]

\* img.get_pixel(x, y), by name: the last write to the pixel decides
get_pixel(img, p) ==
    IF \E c \in Colours : p \in img.px[c]
    THEN CHOOSE c \in Colours : p \in img.px[c]
    ELSE IF \E run \in img.blended : run.x = p[1] /\ run.lo <= p[2] /\ p[2] <= run.hi
         THEN "blended"
         ELSE "black"

RenderIdle ==
    /\ rCfg = EmptyConfig
    /\ rKind = "graph"
    /\ rPc = "done"
    /\ rPoints = << >>
    /\ rIdx = 0
    /\ rTouched = {}
    /\ rResult = None
    /\ rTitle = None
    /\ rColor = None
    /\ rAlpha = None
    /\ rArc = None
    /\ rGauge = None
    /\ rImg = NewImage

RenderInit ==
    /\ rCfg \in RenderConfigs
    /\ rKind \in RenderKinds(rCfg)
    /\ rPc = "start"
    /\ rPoints = << >>
    /\ rIdx = 0
    /\ rTouched = {}
    /\ rResult = None
    /\ rTitle = None
    /\ rColor = None
    /\ rAlpha = None
    /\ rArc = None
    /\ rGauge = None
    /\ rImg = NewImage

\* return Ok(img)
RenderReturns ==
    /\ rPc' = "done"
    /\ rResult' = Some("Ok")

\* generate_graph up to the call of draw_gradient_fill: the empty-window
\* return, draw_title (drawn by imageproc, which clips to the canvas) and
\* normalize_points
GraphStart ==
    /\ rKind = "graph"
    /\ rPc = "start"
    /\ IF rCfg.data_points = << >>
       THEN RenderReturns /\ UNCHANGED <<rPoints, rIdx, rTitle>>
       ELSE LET np == normalize_points(rCfg.data_points, rCfg.min_value, rCfg.max_value,
                                       graph_width, graph_height)
            IN  /\ rTitle' = draw_title(rCfg)
                /\ rPoints' = np.points
                /\ rIdx' = fill_min_x(np.points)
                /\ rPc' = IF np.panic THEN "panicked" ELSE "fill"
                /\ UNCHANGED rResult
    /\ rTouched' = {}
    /\ UNCHANGED <<rCfg, rKind, rColor, rAlpha, rArc, rGauge, rImg, notRend>>

\* draw_gradient_fill: one column x of `for x in min_x..=max_x`
GraphFillColumn ==
    /\ rPc = "fill"
    /\ rIdx <= fill_max_x(rPoints)
    /\ LET col == fill_column(rPoints, rIdx, GRAPH_PADDING, GRAPH_PADDING + TITLE_HEIGHT,
                              graph_height)
       IN  /\ rTouched' = col.touched
           /\ rAlpha' = col.alpha
           /\ rPc' = IF col.panic THEN "panicked" ELSE "fill"
    /\ rImg' = blend_pixels(rImg, rTouched')
    /\ rColor' = Some(line_color(rCfg))
    /\ rIdx' = rIdx + 1
    /\ UNCHANGED <<rCfg, rKind, rPoints, rResult, rTitle, rArc, rGauge, notRend>>

\* draw_gradient_fill returns; draw_connected_line starts
GraphFillDone ==
    /\ rPc = "fill"
    /\ rIdx > fill_max_x(rPoints)
    /\ rPc' = "line"
    /\ rIdx' = 0
    /\ rTouched' = {}
    /\ rColor' = None
    /\ rAlpha' = None
    /\ UNCHANGED <<rCfg, rKind, rPoints, rResult, rTitle, rArc, rGauge, rImg, notRend>>

\* draw_connected_line: the single point, or one segment of
\* `for i in 0..points.len() - 1`; after the last one generate_graph returns
GraphLine ==
    /\ rPc = "line"
    /\ rTouched' = connected_line_part(rPoints, rIdx, GRAPH_PADDING,
                                       GRAPH_PADDING + TITLE_HEIGHT)
    /\ rImg' = put_pixels(rImg, rTouched', line_color(rCfg))
    /\ rColor' = Some(line_color(rCfg))
    /\ IF Len(rPoints) < 2 \/ rIdx + 1 >= Len(rPoints) - 1
       THEN RenderReturns /\ UNCHANGED rIdx
       ELSE rIdx' = rIdx + 1 /\ UNCHANGED <<rPc, rResult>>
    /\ UNCHANGED <<rCfg, rKind, rPoints, rTitle, rAlpha, rArc, rGauge, notRend>>

\* generate_gauge up to the first draw_thick_arc: the empty-window return,
\* draw_title and the angles
GaugeStart ==
    /\ rKind = "gauge"
    /\ rPc = "start"
    /\ IF rCfg.data_points = << >>
       THEN RenderReturns /\ UNCHANGED <<rIdx, rTitle, rGauge>>
       ELSE /\ rTitle' = draw_title(rCfg)
            /\ rGauge' = Some([percentage |-> percentage(rCfg),
                               threshold_percentage |-> threshold_percentage(rCfg)])
            /\ rPc' = "arc"
            /\ rIdx' = 1
            /\ UNCHANGED rResult
    /\ rTouched' = {}
    /\ UNCHANGED <<rCfg, rKind, rPoints, rColor, rAlpha, rArc, rImg, notRend>>

\* one of the three draw_thick_arc calls of generate_gauge (the background up
\* to the threshold, the background after it, the filled arc)
GaugeArc ==
    /\ rPc = "arc"
    /\ LET arc == gauge_arcs(rCfg)[rIdx]
       IN  /\ rTouched' = draw_thick_arc(gauge_center_x, gauge_center_y, inner_radius,
                                         outer_radius, arc.start, arc.end)
           /\ rImg' = put_pixels(rImg, rTouched', arc.color)
           /\ rColor' = Some(arc.color)
           /\ rArc' = Some([start |-> arc.start, end |-> arc.end])
    /\ IF rIdx = 3
       THEN RenderReturns /\ UNCHANGED rIdx
       ELSE rIdx' = rIdx + 1 /\ UNCHANGED <<rPc, rResult>>
    /\ UNCHANGED <<rCfg, rKind, rPoints, rTitle, rAlpha, rGauge, notRend>>

-----------------------------------------------------------------------------
(* parse_hex_color and the colours of get_graph_config *)

\* A string is a sequence of chars; a char is named by a TLA+ string.
\* "e_acute" is U+00E9, two bytes in UTF-8; every other char used is ASCII.
len_utf8(c) == IF c = "e_acute" THEN 2 ELSE 1

\* the bytes of a string: <<c, k>> is the k-th byte of char c
RECURSIVE as_bytes(_)
as_bytes(s) ==
    IF s = << >> THEN << >>
    ELSE [k \in 1..len_utf8(Head(s)) |-> <<Head(s), k>>] \o as_bytes(Tail(s))

\* str::len: the length in bytes
str_len(s) == Len(as_bytes(s))

\* str::is_char_boundary
is_char_boundary(s, i) ==
    \/ i = 0
    \/ i = str_len(s)
    \/ i < str_len(s) /\ as_bytes(s)[i + 1][2] = 1

\* &s[a..b]: panics unless both byte offsets are char boundaries
str_slice(s, a, b) ==
    LET bytes == SubSeq(as_bytes(s), a + 1, b)
        first == SelectSeq(bytes, LAMBDA e : e[2] = 1)
    IN  [str   |-> [i \in 1..Len(first) |-> first[i][1]],
         panic |-> ~(is_char_boundary(s, a) /\ is_char_boundary(s, b))]

\* str::trim_start_matches('#'): every leading '#' is removed
RECURSIVE trim_start_matches(_)
trim_start_matches(s) ==
    IF s /= << >> /\ Head(s) = "#" THEN trim_start_matches(Tail(s)) ELSE s

\* char::to_digit(16)
HexDigits == <<"0", "1", "2", "3", "4", "5", "6", "7", "8", "9",
               "a", "b", "c", "d", "e", "f">>
UpperHexDigits == <<"0", "1", "2", "3", "4", "5", "6", "7", "8", "9",
                    "A", "B", "C", "D", "E", "F">>
to_digit(c) ==
    IF \E d \in 1..16 : c \in {HexDigits[d], UpperHexDigits[d]}
    THEN Some((CHOOSE d \in 1..16 : c \in {HexDigits[d], UpperHexDigits[d]}) - 1)
    ELSE None

RECURSIVE digits_value(_, _)
digits_value(digits, acc) ==
    IF digits = << >> THEN acc
    ELSE digits_value(Tail(digits), acc * 16 + Unwrap(to_digit(Head(digits))))

\* u8::from_str_radix(src, 16).ok(): an empty string, a lone sign, a '-', a
\* char that is no hex digit and a value above 255 are errors; one leading
\* '+' is accepted
from_str_radix(src) ==
    LET digits == IF src /= << >> /\ Head(src) = "+" THEN Tail(src) ELSE src
    IN  IF src = << >> \/ digits = << >> THEN None
        ELSE IF \E i \in 1..Len(digits) : to_digit(digits[i]) = None THEN None
        ELSE IF digits_value(digits, 0) > 255 THEN None
        ELSE Some(digits_value(digits, 0))

\* parse_hex_color: Option<Rgba<u8>>, or a panic of one of the three slices
parse_hex_color(hex_in) ==
    LET hex == trim_start_matches(hex_in)
        s1 == str_slice(hex, 0, 2)
        s2 == str_slice(hex, 2, 4)
        s3 == str_slice(hex, 4, 6)
        r == from_str_radix(s1.str)
        g == from_str_radix(s2.str)
        b == from_str_radix(s3.str)
    IN  IF str_len(hex) /= 6 THEN [ret |-> None, panic |-> FALSE]
        ELSE IF s1.panic THEN [ret |-> None, panic |-> TRUE]
        ELSE IF r = None THEN [ret |-> None, panic |-> FALSE]
        ELSE IF s2.panic THEN [ret |-> None, panic |-> TRUE]
        ELSE IF g = None THEN [ret |-> None, panic |-> FALSE]
        ELSE IF s3.panic THEN [ret |-> None, panic |-> TRUE]
        ELSE IF b = None THEN [ret |-> None, panic |-> FALSE]
        ELSE [ret |-> Some(<<Unwrap(r), Unwrap(g), Unwrap(b), 255>>), panic |-> FALSE]

\* ColorScheme::default()
ColorScheme_default == [normal_color |-> <<0, 255, 0, 255>>, warning_color |-> <<255, 0, 0, 255>>]

\* Option::unwrap_or
unwrap_or(opt, default) == IF opt = None THEN default ELSE Unwrap(opt)

\* the chars of the generated colour strings, their greatest length in chars,
\* and some strings of other chars
HexAlphabet == {"#", "A", "+", "e_acute"}
MaxHexLen == 7
SampleColors == { <<"#", "F", "F", "0", "0", "A", "A">>,
                  <<"#", "f", "f", "0", "0", "a", "a">>,
                  <<"#", "-", "A", "A", "A", "A", "A">>,
                  <<"#", "G", "A", "A", "A", "A", "A">>,
                  <<"#", "0", "0", "8", "0", "0", "0">>,
                  <<"F", "F", "0", "0", "A", "A">> }
HexStrings == SeqsUpTo(HexAlphabet, MaxHexLen) \cup SampleColors
WarningStrings == { << >>, <<"#", "0", "0", "0", "0", "F", "F">> }

ColorIdle ==
    /\ colNormal = << >>
    /\ colWarning = << >>
    /\ colPc = "done"
    /\ colScheme = None

\* get_graph_config is called on settings with some colour strings
ColorInit ==
    /\ colNormal \in HexStrings
    /\ colWarning \in WarningStrings
    /\ colPc = "normal"
    /\ colScheme = None

\* let normal_color = parse_hex_color(&self.settings.normal_color)
\*     .unwrap_or(ColorScheme::default().normal_color);
ColorNormal ==
    /\ colPc = "normal"
    /\ LET parsed == parse_hex_color(colNormal)
       IN  IF parsed.panic
           THEN colPc' = "panicked" /\ UNCHANGED colScheme
           ELSE /\ colPc' = "warning"
                /\ colScheme' = Some([normal_color |->
                                      unwrap_or(parsed.ret, ColorScheme_default.normal_color)])
    /\ UNCHANGED <<colNormal, colWarning, notCol>>

\* let warning_color = parse_hex_color(&self.settings.warning_color)
\*     .unwrap_or(ColorScheme::default().warning_color);
\* and the ColorScheme of the returned GraphConfig
ColorWarning ==
    /\ colPc = "warning"
    /\ LET parsed == parse_hex_color(colWarning)
       IN  IF parsed.panic
           THEN colPc' = "panicked" /\ UNCHANGED colScheme
           ELSE /\ colPc' = "done"
                /\ colScheme' = Some([normal_color |-> Unwrap(colScheme).normal_color,
                                      warning_color |->
                                      unwrap_or(parsed.ret, ColorScheme_default.warning_color)])
    /\ UNCHANGED <<colNormal, colWarning, notCol>>

-----------------------------------------------------------------------------
(* websocket.rs: one WebSocketClient, its run_connection task and the ping   *)
(* tasks of its connections                                                  *)

\* the greatest number of connect_and_run calls and of pings followed
MaxAttempts == 3
MaxPings == 2

\* the numbers of init messages of the configs
InitMessageCounts == {0, 1, 2}

\* what the server can answer an init message with: the send fails, a text,
\* a close, an error, another message, or the end of the stream
InitOutcomes == {"send_err", "text", "close", "err", "other", "end"}

\* WebSocketClient::new on a config: ping_id starts at init_messages.len()
WebSocketClient_new(config) ==
    /\ wsConfig = config
    /\ wsPc = "new"
    /\ wsAttempts = 0
    /\ wsInitIdx = 0
    /\ wsPing = << >>
    /\ wsPingHandle = None
    /\ wsPingId = config.init_messages
    /\ wsValue = 0
    /\ wsResult = None

WsIdle == WebSocketClient_new([init_messages |-> 0, send_pings |-> FALSE])

WsInit ==
    \E n \in InitMessageCounts, pings \in BOOLEAN :
        WebSocketClient_new([init_messages |-> n, send_pings |-> pings])

\* run_connection calls connect_and_run
call_connect_and_run ==
    /\ wsPc' = "connect"
    /\ wsAttempts' = wsAttempts + 1
    /\ wsInitIdx' = 0
    /\ wsPingHandle' = None

\* connect_and_run returns to the match of run_connection; its locals are dropped
connect_and_run_returns(result) ==
    /\ wsPc' = "returned"
    /\ wsResult' = Some(result)
    /\ wsPingHandle' = None

\* WebSocketClient::start: tokio::spawn of run_connection, whose loop calls
\* connect_and_run
WsStart ==
    /\ wsPc = "new"
    /\ call_connect_and_run
    /\ UNCHANGED <<wsConfig, wsPing, wsPingId, wsValue, wsResult, notWs>>

\* connect_async(&url).await? fails
WsConnectFails ==
    /\ wsPc = "connect"
    /\ connect_and_run_returns("Err")
    /\ UNCHANGED <<wsConfig, wsAttempts, wsInitIdx, wsPing, wsPingId, wsValue, notWs>>

\* connect_async(&url).await? succeeds
WsConnected ==
    /\ wsPc = "connect"
    /\ wsPc' = "init"
    /\ UNCHANGED <<wsConfig, wsAttempts, wsInitIdx, wsPing, wsPingHandle, wsPingId, wsValue,
                   wsResult, notWs>>

\* one iteration of the init message loop: the send, then read.next()
WsInitMessage(outcome) ==
    /\ wsPc = "init"
    /\ wsInitIdx < wsConfig.init_messages
    /\ IF outcome \in {"send_err", "close", "err"}
       THEN connect_and_run_returns("Err") /\ UNCHANGED wsInitIdx
       ELSE wsInitIdx' = wsInitIdx + 1 /\ UNCHANGED <<wsPc, wsResult, wsPingHandle>>
    /\ UNCHANGED <<wsConfig, wsAttempts, wsPing, wsPingId, wsValue, notWs>>

\* the init messages are done: the ping task is spawned if send_pings, and
\* the read loop starts
WsInitDone ==
    /\ wsPc = "init"
    /\ wsInitIdx = wsConfig.init_messages
    /\ IF wsConfig.send_pings
       THEN /\ wsPing' = Append(wsPing, "alive")
            /\ wsPingHandle' = Some(Len(wsPing) + 1)
       ELSE UNCHANGED <<wsPing, wsPingHandle>>
    /\ wsPc' = "read"
    /\ UNCHANGED <<wsConfig, wsAttempts, wsInitIdx, wsPingId, wsValue, wsResult, notWs>>

\* one iteration of the loop of ping task i: the send succeeds, or fails and
\* the task breaks out of its loop
WsPingTick(i, sent) ==
    /\ i \in 1..Len(wsPing)
    /\ wsPing[i] = "alive"
    /\ wsPingId < wsConfig.init_messages + MaxPings
    /\ wsPingId' = wsPingId + 1
    /\ wsPing' = IF sent THEN wsPing ELSE [wsPing EXCEPT ![i] = "ended"]
    /\ UNCHANGED <<wsConfig, wsPc, wsAttempts, wsInitIdx, wsPingHandle, wsValue, wsResult,
                   notWs>>

\* the read loop takes a message that does not end it: a text from which
\* extract_value takes Some(value), or anything else
WsMessage(value) ==
    /\ wsPc = "read"
    /\ wsValue' = IF value = None THEN wsValue ELSE Unwrap(value)
    /\ UNCHANGED <<wsConfig, wsPc, wsAttempts, wsInitIdx, wsPing, wsPingHandle, wsPingId,
                   wsResult, notWs>>

\* an abort that does nothing
abort_nothing(tasks, handle) == tasks

\* JoinHandle::abort: a task that has not ended is cancelled
abort(tasks, handle) ==
    IF handle = None THEN tasks
    ELSE [tasks EXCEPT ![Unwrap(handle)] = IF @ = "alive" THEN "aborted" ELSE @]

\* the read loop ends (a close, an error or the end of the stream): the ping
\* task is aborted and connect_and_run returns Ok
WsReadEnds ==
    /\ wsPc = "read"
    /\ wsPing' = abort(wsPing, wsPingHandle)
    /\ connect_and_run_returns("Ok")
    /\ UNCHANGED <<wsConfig, wsAttempts, wsInitIdx, wsPingId, wsValue, notWs>>

\* run_connection logs the result and calls tokio::time::sleep(5 s)
WsSleep ==
    /\ wsPc = "returned"
    /\ wsPc' = "sleep"
    /\ UNCHANGED <<wsConfig, wsAttempts, wsInitIdx, wsPing, wsPingHandle, wsPingId, wsValue,
                   wsResult, notWs>>

\* the sleep is over: the loop calls connect_and_run again
WsReconnect ==
    /\ wsPc = "sleep"
    /\ wsAttempts < MaxAttempts
    /\ call_connect_and_run
    /\ UNCHANGED <<wsConfig, wsPing, wsPingId, wsValue, wsResult, notWs>>

-----------------------------------------------------------------------------
(* Specifications *)

\* the plugin
Init == PlugInit /\ WinIdle /\ LineIdle /\ RenderIdle /\ ColorIdle /\ WsIdle

Next ==
    \/ \E id \in Ids : WillAppearCall(id)
    \/ \E id \in Ids : WillDisappearCall(id)
    \/ \E id \in Ids : DidReceiveSettingsCall(id)
    \/ \E h \in Handlers, s \in PluginSettings : HandlerLock(h, s)
    \/ WillAppearBody
    \/ WillDisappearBody
    \/ DidReceiveSettingsBody
    \/ TickWake
    \/ TickLock
    \/ TickLoopEnd
    \/ TickSkipMissing
    \/ TickRead
    \/ TickReadFailed
    \/ TickProcess(TRUE)
    \/ TickProcess(FALSE)
    \/ TickSetImage
    \/ TickSetTitle

Spec == Init /\ [][Next]_vars

\* one GraphData on its own
InitWindow == WinInit /\ PlugIdle /\ LineIdle /\ RenderIdle /\ ColorIdle /\ WsIdle

NextWindow == WinAdd \/ WinSnapshot

SpecWindow == InitWindow /\ [][NextWindow]_vars

\* draw_line_segment on a pair of endpoints, in both orders
InitLine == LineInit /\ PlugIdle /\ WinIdle /\ RenderIdle /\ ColorIdle /\ WsIdle

NextLine == LineIter \/ LineSwap \/ LineReturn

SpecLine == InitLine /\ [][NextLine]_vars

\* generate_graph or generate_gauge on one GraphConfig
InitRender == RenderInit /\ PlugIdle /\ WinIdle /\ LineIdle /\ ColorIdle /\ WsIdle

NextRender ==
    \/ GraphStart
    \/ GraphFillColumn
    \/ GraphFillDone
    \/ GraphLine
    \/ GaugeStart
    \/ GaugeArc

SpecRender == InitRender /\ [][NextRender]_vars

\* generate_graph and generate_gauge up to their drawing loops: the
\* empty-window return, the warning rule, the title and normalize_points
InitCompose ==
    /\ rCfg \in ComposeConfigs
    /\ rKind \in {"graph", "gauge"}
    /\ rPc = "start"
    /\ rPoints = << >>
    /\ rIdx = 0
    /\ rTouched = {}
    /\ rResult = None
    /\ rTitle = None
    /\ rColor = None
    /\ rAlpha = None
    /\ rArc = None
    /\ rGauge = None
    /\ rImg = NewImage
    /\ PlugIdle /\ WinIdle /\ LineIdle /\ ColorIdle /\ WsIdle

NextCompose == GraphStart \/ GaugeStart

SpecCompose == InitCompose /\ [][NextCompose]_vars

\* get_graph_config's colours for every colour string
InitColor == ColorInit /\ PlugIdle /\ WinIdle /\ LineIdle /\ RenderIdle /\ WsIdle

NextColor == ColorNormal \/ ColorWarning

SpecColor == InitColor /\ [][NextColor]_vars

\* one client from WebSocketClient::new on.  The runtime runs a task that can
\* run and the sleep of 5 s ends: the steps of run_connection between two
\* connections are weakly fair.
InitWebSocket == WsInit /\ PlugIdle /\ WinIdle /\ LineIdle /\ RenderIdle /\ ColorIdle

NextWebSocket ==
    \/ WsStart
    \/ WsConnectFails
    \/ WsConnected
    \/ \E outcome \in InitOutcomes : WsInitMessage(outcome)
    \/ WsInitDone
    \/ \E i \in 1..MaxAttempts, sent \in BOOLEAN : WsPingTick(i, sent)
    \/ \E value \in {None} \cup {Some(v) : v \in Values} : WsMessage(value)
    \/ WsReadEnds
    \/ WsSleep
    \/ WsReconnect

SpecWebSocket ==
    InitWebSocket /\ [][NextWebSocket]_vars /\ WF_vars(WsSleep) /\ WF_vars(WsReconnect)

-----------------------------------------------------------------------------
(* Claims about the sample window (SpecWindow) *)

Min(a, b) == IF a <= b THEN a ELSE b
LastN(q, n) == SubSeq(q, Len(q) - n + 1, Len(q))

\* C1: after any sequence of add_data_point calls on a GraphData created by
\* GraphData::new, the window is never longer than the MAX_DATA_POINTS of its
\* source file (10 in plugin.rs, 60 in graph_data.rs).
C1_WindowWithinCapacity ==
    Len(winData.data_points) <= Capacity(winSrc)

\* a graph_data.rs window that is full after more than 60 appends
C1_Witness ==
    /\ winSrc = "graph_data"
    /\ Len(winHist) > GD_MAX_DATA_POINTS
    /\ Len(winData.data_points) = GD_MAX_DATA_POINTS

\* C2: strict FIFO.  After appending v1..vn to an empty window of capacity C
\* the window is exactly the last min(n, C) appended values in arrival order;
\* an append on a full window removes the front element and nothing else, an
\* append on a window that is not full removes nothing.
C2_FifoState ==
    winData.data_points =
        LastN(winHist, Min(Len(winHist), Capacity(winSrc)))

C2_FifoStep ==
    LET w == winData.data_points
        v == winHist'[Len(winHist')]
    IN  IF Len(w) = Capacity(winSrc)
        THEN winData'.data_points = Append(Tail(w), v)
        ELSE winData'.data_points = Append(w, v)

C2_StrictFifo ==
    /\ []C2_FifoState
    /\ [][WinAdd => C2_FifoStep]_vars

\* a plugin.rs window after an eviction, holding both sample values
C2_Witness ==
    /\ winSrc = "plugin"
    /\ Len(winHist) > MAX_DATA_POINTS
    /\ winHist[1] /= winHist[2]
    /\ winData.data_points[1] /= winData.data_points[MAX_DATA_POINTS]

\* C4: get_graph_config does not mutate the window, and the data_points of
\* the config it returns are the window's content in the window's order.
C4_SnapshotFrame ==
    [][WinSnapshot =>
          /\ winData' = winData
          /\ IsSome(winConfig')
          /\ Unwrap(winConfig').data_points = winData.data_points]_vars

\* a snapshot of a full window that holds both sample values
C4_Witness ==
    /\ IsSome(winConfig)
    /\ Len(winData.data_points) = Capacity(winSrc)
    /\ Unwrap(winConfig).data_points = winData.data_points
    /\ winData.data_points[1] /= winData.data_points[2]

-----------------------------------------------------------------------------
(* Claims about the tick task and the handlers (Spec) *)

TickInCS == tickPc \in {"locked", "got_value"}
TickHandOff == tickPc \in {"set_image", "set_title"}
TickMoves == tickPc' /= tickPc

\* the tasks inside the critical section of GRAPH_INSTANCES
InCS == {h \in Handlers : handlerPc[h] = "locked"}
            \cup (IF TickInCS THEN {"tick"} ELSE {})

\* C3: when read_sensor_value returns Err for an instance, the instance's
\* data_points are the same before and after the tick, and no image and no
\* title is sent for it.
C3_FailedPollState ==
    /\ (tickPc = "got_value" /\ ~tickRead.ok) =>
          /\ MapHas(GRAPH_INSTANCES, tickId)
          /\ GRAPH_INSTANCES[tickId].data_points = tickBefore
    /\ TickHandOff => tickRead.ok

C3_FailedPollStep ==
    (tickPc = "got_value" /\ ~tickRead.ok /\ TickMoves) =>
        /\ GRAPH_INSTANCES' = GRAPH_INSTANCES
        /\ hostImage' = hostImage
        /\ hostTitle' = hostTitle
        /\ tickPc' = "iter"

C3_FailedPollLeavesWindow ==
    /\ []C3_FailedPollState
    /\ [][C3_FailedPollStep]_vars

\* a failed poll of an instance whose window already holds samples
C3_Witness ==
    /\ tickPc = "got_value"
    /\ ~tickRead.ok
    /\ tickBefore /= << >>

\* C5: the GRAPH_INSTANCES lock serializes the tick task and the three
\* handlers (at most one of them is in the critical section), only the tick
\* task appends to a window, and the config a tick renders is taken in the
\* critical section of that tick's append: it is the window as appended and
\* its last data point is the value just sampled.
C5_MutualExclusion ==
    /\ Cardinality(InCS) <= 1
    /\ InCS = (IF lockHolder = "free" THEN {} ELSE {lockHolder})

C5_RenderedSnapshot ==
    TickHandOff =>
        /\ tickConfig.data_points /= << >>
        /\ tickConfig.data_points[Len(tickConfig.data_points)] = tickRead.v
        /\ Len(tickConfig.data_points) = Min(Len(tickBefore) + 1, MAX_DATA_POINTS)

C5_AppendStep ==
    /\ \A id \in (DOMAIN GRAPH_INSTANCES) \cap (DOMAIN GRAPH_INSTANCES') :
          GRAPH_INSTANCES'[id].data_points /= GRAPH_INSTANCES[id].data_points =>
              \/ tickPc = "got_value" /\ tickId = id /\ lockHolder = "tick"
              \/ GRAPH_INSTANCES'[id].data_points = << >>
    /\ (tickPc = "got_value" /\ tickPc' = "set_image") =>
          /\ tickConfig'.data_points = GRAPH_INSTANCES'[tickId].data_points
          /\ lockHolder = "tick"

C5_Serialized ==
    /\ [](C5_MutualExclusion /\ C5_RenderedSnapshot)
    /\ [][C5_AppendStep]_vars

\* the tick task is in the critical section with a sample in hand while two
\* handlers wait for the lock
C5_Witness ==
    /\ tickPc = "got_value"
    /\ tickRead.ok
    /\ tickBefore /= << >>
    /\ handlerPc["will_disappear"] = "waiting"
    /\ handlerPc["did_receive_settings"] = "waiting"

\* C6: once will_disappear(id) has removed id's entry, no step of the tick
\* task appends to it, reads it or re-inserts it; a tick in flight for id
\* only hands its locally owned image and title to the host, without the
\* lock and without touching GRAPH_INSTANCES.
C6_NoReinsert ==
    \A id \in Ids :
        (TickMoves /\ ~MapHas(GRAPH_INSTANCES, id)) => GRAPH_INSTANCES' = GRAPH_INSTANCES

C6_HandOffStep ==
    (TickHandOff /\ TickMoves) =>
        /\ GRAPH_INSTANCES' = GRAPH_INSTANCES
        /\ lockHolder' = lockHolder
        /\ tickConfig' \in {tickConfig, EmptyConfig}

C6_TeardownHarmless ==
    /\ [](TickHandOff => lockHolder /= "tick")
    /\ [](tickPc = "got_value" => MapHas(GRAPH_INSTANCES, tickId))
    /\ [][C6_NoReinsert /\ C6_HandOffStep]_vars

\* the tick in flight is about to send the image of an instance that
\* will_disappear has removed meanwhile
C6_Witness ==
    /\ tickPc = "set_image"
    /\ ~MapHas(GRAPH_INSTANCES, tickId)
    /\ tickId \notin hostVisible
    /\ handlerPc["will_disappear"] = "idle"

-----------------------------------------------------------------------------
(* Claims about draw_line_segment (SpecLine) *)

SeqSet(q) == {q[i] : i \in 1..Len(q)}
NoDuplicates(q) == \A i, j \in 1..Len(q) : q[i] = q[j] => i = j
PointInCanvas(p) == in_canvas(p[1], p[2])
BothInCanvas == PointInCanvas(lnA) /\ PointInCanvas(lnB)

\* the point reflection through the midpoint of A and B
Mirror(S) == {<<lnA[1] + lnB[1] - p[1], lnA[2] + lnB[2] - p[2]>> : p \in S}

\* the segment is horizontal, vertical or an exact diagonal
AxisOrDiagonal ==
    \/ lnA[1] = lnB[1]
    \/ lnA[2] = lnB[2]
    \/ Abs(lnA[1] - lnB[1]) = Abs(lnA[2] - lnB[2])

\* C7 as claimed: for A and B inside the canvas, draw_line_segment(A, B) and
\* draw_line_segment(B, A) visit the identical set of pixels.
C7_SwapInvariant ==
    (lnCall = "done" /\ BothInCanvas) => SeqSet(lnFirst) = SeqSet(ln.writes)

\* C7 as amended: for A and B inside the canvas, both calls visit both
\* endpoints; the pixels of (B, A) are the pixels of (A, B) reflected through
\* the midpoint of A and B; the two sets are identical when the segment is
\* horizontal, vertical or an exact diagonal.
C7_SwapMirrors ==
    (lnCall = "done" /\ BothInCanvas) =>
        /\ SeqSet(ln.writes) = Mirror(SeqSet(lnFirst))
        /\ {lnA, lnB} \subseteq SeqSet(lnFirst)
        /\ {lnA, lnB} \subseteq SeqSet(ln.writes)
        /\ AxisOrDiagonal => SeqSet(lnFirst) = SeqSet(ln.writes)

\* both calls have returned and their pixel sets differ
C7_Witness ==
    /\ lnCall = "done"
    /\ BothInCanvas
    /\ SeqSet(lnFirst) /= SeqSet(ln.writes)
    /\ SeqSet(ln.writes) = Mirror(SeqSet(lnFirst))

\* C8: the loop of draw_line_segment terminates.  After k iterations the
\* cursor is max(|dx|, |dy|) - k steps (in the larger coordinate distance)
\* from (x1, y1), so the loop reaches (x1, y1) after exactly max(|dx|, |dy|)
\* iterations, and it breaks there and nowhere else; this covers x0 == x1,
\* y0 == y1 and A == B.
C8_LineTerminates ==
    /\ ln.steps + Max(Abs(ln.x1 - ln.x), Abs(ln.y1 - ln.y)) = Max(ln.dx, ln.dy)
    /\ ln.steps <= Max(ln.dx, ln.dy)
    /\ ln.done => (ln.x = ln.x1 /\ ln.y = ln.y1)
    /\ (ln.x = ln.x1 /\ ln.y = ln.y1 /\ ~ln.done) => line_iter(ln).done
    /\ lnCall = "done" \/ ENABLED NextLine

\* a call on a shallow slope has broken out of its loop after max(dx, dy) iterations
C8_Witness ==
    /\ lnCall = "second"
    /\ ln.done
    /\ ln.dy >= 1
    /\ ln.dx > ln.dy + 1
    /\ ln.steps = ln.dx

\* C9: within one call no position is written twice, every iteration writes
\* one pixel that lies inside the canvas, and both endpoints are written
\* when they lie inside the canvas.
C9_EachPixelOnce ==
    /\ NoDuplicates(ln.writes)
    /\ Len(ln.writes) <= ln.steps + 1
    /\ ln.done =>
          /\ PointInCanvas(<<ln.x0, ln.y0>>) => <<ln.x0, ln.y0>> \in SeqSet(ln.writes)
          /\ PointInCanvas(<<ln.x1, ln.y1>>) => <<ln.x1, ln.y1>> \in SeqSet(ln.writes)
          /\ (PointInCanvas(<<ln.x0, ln.y0>>) /\ PointInCanvas(<<ln.x1, ln.y1>>)) =>
                Len(ln.writes) = Max(ln.dx, ln.dy) + 1

\* a finished call on a steep slope that wrote more than three pixels
C9_Witness ==
    /\ lnCall = "first"
    /\ ln.done
    /\ ln.dx >= 1
    /\ ln.dy > ln.dx + 1
    /\ Len(ln.writes) = ln.dy + 1

\* no panic so far, the pixels of the last step lie inside the canvas, the
\* normalized points lie inside the graph area, the loops stay in their ranges
C10_RenderState ==
    /\ rPc /= "panicked"
    /\ \A p \in rTouched : PointInCanvas(p)
    /\ \A i \in 1..Len(rPoints) :
          /\ rPoints[i][1] >= 0 /\ rPoints[i][1] <= graph_width
          /\ rPoints[i][2] >= 0 /\ rPoints[i][2] <= graph_height
    /\ rPc = "done" => (RenderIdle \/ rResult = Some("Ok"))
    /\ rPc \in {"start", "fill", "line", "arc"} => rResult = None
    /\ rPc = "fill" => rIdx <= graph_width + 1
    /\ rPc = "line" => rIdx + 2 <= Max(Len(rPoints), 2)
    /\ rPc = "arc" => rIdx \in 1..3

\* every step advances its loop by one or leaves the loop for the next phase
C10_RenderStep ==
    \/ rPc' = rPc /\ rIdx' = rIdx + 1
    \/ <<rPc, rPc'>> \in {<<"start", "fill">>, <<"fill", "line">>, <<"line", "done">>,
                          <<"start", "arc">>, <<"arc", "done">>, <<"start", "done">>}

\* C10: for every config (samples far below and far above the range,
\* min > max, min = max, one sample up to a full window) no step of
\* generate_graph or generate_gauge panics, every pixel it reads or writes
\* (gradient fill, line, point, arc) lies in [0, 144) x [0, 144), and the
\* function advances through its bounded loops to the return of Ok.
C10_RenderInCanvas == []C10_RenderState /\ [][C10_RenderStep]_rendVars

\* generate_graph has returned for a full window with min > max that holds
\* samples far above and far below the range; its last segment was drawn
C10_Witness ==
    /\ rKind = "graph"
    /\ rPc = "done"
    /\ rResult = Some("Ok")
    /\ Len(rCfg.data_points) = MAX_DATA_POINTS
    /\ rCfg.min_value > rCfg.max_value
    /\ \E i, j \in 1..Len(rCfg.data_points) :
          rCfg.data_points[i] > rCfg.min_value /\ rCfg.data_points[j] < rCfg.max_value
    /\ Cardinality(rTouched) > 1

\* C11: for a window of length 0 generate_graph and generate_gauge return Ok
\* with the black canvas on which the title has been drawn, and no line, fill
\* or arc pixel is drawn.
C11_EmptyWindowTitled ==
    (rPc = "done" /\ rCfg \in ComposeConfigs /\ rCfg.data_points = << >>) =>
        /\ rResult = Some("Ok")
        /\ rTouched = {}
        /\ rColor = None
        /\ rTitle = Some([title |-> rCfg.title, color |-> "normal_color"])

\* C12: for a single sample normalize_points places the point at
\* x = width / 2, for every min and max including min = max.
C12_SinglePointCentered ==
    (rKind = "graph" /\ rPc = "fill" /\ Len(rCfg.data_points) = 1) =>
        /\ Len(rPoints) = 1
        /\ rPoints[1][1] = graph_width \div 2

\* sample i (from 0) of n samples is placed at the nearest whole x
RoundedX(i, n, x) ==
    /\ 2 * x * (n - 1) <= 2 * i * graph_width + (n - 1)
    /\ 2 * i * graph_width + (n - 1) < 2 * (x + 1) * (n - 1)

\* sample i (from 0) of n samples is placed at the whole x below its position
TruncatedX(i, n, x) ==
    /\ x * (n - 1) <= i * graph_width
    /\ i * graph_width < (x + 1) * (n - 1)

\* C13 as stated: for n >= 2 samples, sample i is placed at
\* x = round(i / (n - 1) * width), rounded to the nearest whole number.
C13_RoundedX ==
    (rKind = "graph" /\ rPc = "fill" /\ Len(rCfg.data_points) >= 2) =>
        \A i \in 1..Len(rPoints) : RoundedX(i - 1, Len(rPoints), rPoints[i][1])

\* C13, amended: for n >= 2 samples, one point per sample, sample i placed at
\* i / (n - 1) * width truncated toward zero, so that the first sample is at
\* x = 0 and the last at x = width.
C13_TruncatedX ==
    (rKind = "graph" /\ rPc = "fill" /\ Len(rCfg.data_points) >= 2) =>
        /\ Len(rPoints) = Len(rCfg.data_points)
        /\ \A i \in 1..Len(rPoints) : TruncatedX(i - 1, Len(rPoints), rPoints[i][1])
        /\ rPoints[1][1] = 0
        /\ rPoints[Len(rPoints)][1] = graph_width

\* four samples have been normalized: the third lies at 82, below 82.67
C13_Witness ==
    /\ rKind = "graph"
    /\ rPc = "fill"
    /\ Len(rCfg.data_points) = 4
    /\ rPoints[3][1] = 82
    /\ ~RoundedX(2, 4, rPoints[3][1])

\* C14: when max = min, normalize_points returns one point per sample, each
\* with y = height / 2 whatever its value (no quotient by the zero range,
\* which would send the samples to the top or the bottom row).
C14_FlatMidline ==
    (rKind = "graph" /\ rPc = "fill" /\ rCfg.max_value = rCfg.min_value) =>
        /\ Len(rPoints) = Len(rCfg.data_points)
        /\ \A i \in 1..Len(rPoints) : rPoints[i][2] = graph_height \div 2

\* a window with samples below, at and above min = max has been normalized
C14_Witness ==
    /\ rKind = "graph"
    /\ rPc = "fill"
    /\ rCfg.max_value = rCfg.min_value
    /\ Len(rPoints) = 3
    /\ rCfg.data_points[1] < rCfg.min_value
    /\ rCfg.data_points[2] = rCfg.min_value
    /\ rCfg.data_points[3] > rCfg.min_value
    /\ rPoints[3][2] = 44

\* C15: for max > min every sample yields one point; a sample equal to min or
\* below it gets y = height, a sample equal to max or above it gets y = 0, and
\* a sample equal to (min + max) / 2 gets y within 1 of height / 2.
C15_BoundaryLaw ==
    (rKind = "graph" /\ rPc = "fill" /\ rCfg.max_value > rCfg.min_value) =>
        /\ Len(rPoints) = Len(rCfg.data_points)
        /\ \A i \in 1..Len(rPoints) :
              LET v == rCfg.data_points[i]
                  y == rPoints[i][2]
              IN  /\ v <= rCfg.min_value => y = graph_height
                  /\ v >= rCfg.max_value => y = 0
                  /\ 2 * v = rCfg.min_value + rCfg.max_value =>
                        (2 * y - graph_height <= 2 /\ graph_height - 2 * y <= 2)

\* the samples max, (min + max) / 2 and a value below min have been normalized
C15_Witness ==
    /\ rKind = "graph"
    /\ rPc = "fill"
    /\ rCfg.max_value > rCfg.min_value
    /\ Len(rPoints) = 3
    /\ rCfg.data_points[1] = rCfg.max_value
    /\ 2 * rCfg.data_points[2] = rCfg.min_value + rCfg.max_value
    /\ rCfg.data_points[3] < rCfg.min_value
    /\ <<rPoints[1][2], rPoints[2][2], rPoints[3][2]>> = <<0, 45, 89>>

\* generate_graph has normalized the samples [0, 50, 100] with min = 0, max = 100
Scenario16 ==
    /\ rKind = "graph"
    /\ rPc = "fill"
    /\ rCfg.data_points = <<0, 50, 100>>
    /\ rCfg.min_value = 0
    /\ rCfg.max_value = 100

\* C16 as stated: the plot height of generate_graph is 99, and the samples
\* [0, 50, 100] with min = 0, max = 100 normalize to y = 99, about 50, and 0.
C16_Height99 ==
    Scenario16 =>
        /\ rPoints[1][2] = 99
        /\ rPoints[2][2] \in 49..51
        /\ rPoints[3][2] = 0

\* C16, amended: the plot height of generate_graph is 89 (144 less the padding
\* of 10 on both sides and the title band of 35), and the samples [0, 50, 100]
\* with min = 0, max = 100 normalize to y = 89, 45 and 0: the bottom row of
\* the plot, within 1 of its middle, and its top row.
C16_Height89 ==
    Scenario16 =>
        /\ <<rPoints[1][2], rPoints[2][2], rPoints[3][2]>> = <<89, 45, 0>>
        /\ rPoints[1][2] = graph_height
        /\ 2 * rPoints[2][2] - graph_height \in -2..2
        /\ rPoints[1][2] + GRAPH_PADDING + TITLE_HEIGHT = ICON_SIZE - GRAPH_PADDING

\* the scenario with threshold 80: the window is normalized and the title is
\* drawn in the warning colour
C16_Witness ==
    /\ Scenario16
    /\ rCfg.threshold = Some(80)
    /\ rTitle = Some([title |-> rCfg.title, color |-> "warning_color"])
    /\ Len(rPoints) = 3

\* C17: the title (and line) colour is the warning colour exactly when a
\* threshold exists and the last sample is strictly greater than it; earlier
\* samples of the window play no part.
C17_WarningRule ==
    (rPc \in {"fill", "arc"} /\ rCfg \in ComposeConfigs) =>
        LET last   == rCfg.data_points[Len(rCfg.data_points)]
            warned == rCfg.threshold /= None /\ last > rCfg.threshold[1]
        IN  /\ rTitle = Some([title |-> rCfg.title,
                              color |-> IF warned THEN "warning_color" ELSE "normal_color"])
            /\ line_color(rCfg) = rTitle[1].color
            /\ line_color(rCfg) = line_color([rCfg EXCEPT !.data_points = <<last>>])

\* the title was drawn in the normal colour for a window whose last sample
\* equals the threshold and whose earlier samples exceed it
C17_Witness ==
    /\ rPc \in {"fill", "arc"}
    /\ rCfg.threshold = Some(4)
    /\ Len(rCfg.data_points) = 3
    /\ rCfg.data_points[3] = 4
    /\ rCfg.data_points[1] > 4
    /\ rCfg.data_points[2] > 4
    /\ rTitle = Some([title |-> rCfg.title, color |-> "normal_color"])

\* C18 as stated: in every filled column the fill alpha at the line's own row
\* is 0.6 (153 of 255) and the fill alpha at the plot's bottom row is 0, for
\* every line position including the line on the bottom row.
C18_AlphaEnds ==
    (rPc = "fill" /\ rAlpha /= None) =>
        /\ rAlpha[1].line = 153
        /\ rAlpha[1].bottom = 0

\* C18, amended: in every filled column the fill alpha at the line's own row
\* is 0.6 (153 of 255); the fill alpha at the plot's bottom row is 0 when the
\* line lies above the bottom row, and when the line lies on the bottom row
\* that row is the line's own row and has alpha 0.6.
C18_AlphaLaw ==
    (rPc = "fill" /\ rAlpha /= None) =>
        /\ rAlpha[1].line_y \in 0..graph_height
        /\ rAlpha[1].line = 153
        /\ rAlpha[1].line_y < graph_height => rAlpha[1].bottom = 0
        /\ rAlpha[1].line_y = graph_height => rAlpha[1].bottom = 153
        /\ <<rIdx - 1 + GRAPH_PADDING, rAlpha[1].line_y + GRAPH_PADDING + TITLE_HEIGHT>>
               \in rTouched
        /\ <<rIdx - 1 + GRAPH_PADDING, ICON_SIZE - GRAPH_PADDING>> \in rTouched

\* a column whose line lies on the plot's bottom row has been filled, in a
\* window that also has a sample at the top row
C18_Witness ==
    /\ rPc = "fill"
    /\ rAlpha /= None
    /\ rAlpha[1].line_y = graph_height
    /\ rAlpha[1].bottom = 153
    /\ Cardinality(rTouched) = 1
    /\ \E i \in 1..Len(rPoints) : rPoints[i][2] = 0

\* the canvas pixels at distance exactly inner_radius or exactly outer_radius
\* from the gauge center
RimPixels ==
    {p \in (0..(ICON_SIZE - 1)) \X (0..(ICON_SIZE - 1)) :
        LET d2 == (p[1] - gauge_center_x) * (p[1] - gauge_center_x)
                      + (p[2] - gauge_center_y) * (p[2] - gauge_center_y)
        IN  d2 = inner_radius * inner_radius \/ d2 = outer_radius * outer_radius}

\* C19: every canvas pixel at distance exactly inner_radius or exactly
\* outer_radius from the gauge center whose angle lies in the sweep of a
\* draw_thick_arc call is written by that call, and the center pixel is
\* never written.
C19_RingInclusive ==
    (rKind = "gauge" /\ rArc /= None) =>
        /\ \A p \in RimPixels :
              in_range(p[1] - gauge_center_x, p[2] - gauge_center_y,
                       rArc[1].start, rArc[1].end) => p \in rTouched
        /\ <<gauge_center_x, gauge_center_y>> \notin rTouched

\* the pixel (dx, dy) from the center lies within q * 270 degrees of the
\* 135 degree start, measured in the direction of the sweep through the wrap
\* at 0 = 2 * PI
InSweep(dx, dy, q) ==
    IF angle_at(q) < Deg(360)
    THEN angle_ge(dx, dy, start_angle) /\ angle_le(dx, dy, angle_at(q))
    ELSE angle_ge(dx, dy, start_angle) \/ angle_le(dx, dy, angle_at(q) - Deg(360))

\* generate_gauge has returned after drawing its filled arc
FilledArcDrawn ==
    /\ rKind = "gauge"
    /\ rPc = "done"
    /\ rArc /= None

\* C20: for every percentage p the filled arc covers the ring pixels that lie
\* within p * 270 degrees of the 135 degree start, the part of the sweep past
\* the wrap at 0 = 2 * PI included (current = 90, min = 0, max = 100: 90% of
\* the 270 degrees).
C20_FilledSweep ==
    FilledArcDrawn =>
        \A p \in arc_ring(gauge_center_x, gauge_center_y, inner_radius, outer_radius) :
            InSweep(p[1] - gauge_center_x, p[2] - gauge_center_y, percentage(rCfg))
                => p \in rTouched

-----------------------------------------------------------------------------
(* Claims about the gauge percentages (SpecCompose) *)

\* q is clamp((v - min) / (max - min), 0, 1) for the range of config, max > min
IsShare(q, v, config) ==
    LET range == config.max_value - config.min_value
    IN  IF v <= config.min_value THEN q[1] = 0
        ELSE IF v >= config.max_value THEN q[1] = q[2]
        ELSE q[1] * range = (v - config.min_value) * q[2]

\* generate_gauge's percentage is the clamped share of the last sample when
\* max > min, else 0
GaugePercentage ==
    LET p == rGauge[1].percentage
    IN  IF rCfg.max_value > rCfg.min_value
        THEN IsShare(p, rCfg.data_points[Len(rCfg.data_points)], rCfg)
        ELSE p[1] = 0

\* C21 as stated: percentage = clamp((current - min) / (max - min), 0, 1) when
\* max > min, else 0; threshold_percentage is the same formula applied to the
\* configured threshold, so 0 when max <= min, and 0.8 only without a threshold.
C21_ThresholdSameFormula ==
    rGauge /= None =>
        /\ GaugePercentage
        /\ LET tp == rGauge[1].threshold_percentage
           IN  IF rCfg.threshold = None THEN tp[1] * 5 = 4 * tp[2]
               ELSE IF rCfg.max_value > rCfg.min_value
                    THEN IsShare(tp, rCfg.threshold[1], rCfg)
                    ELSE tp[1] = 0

\* C21 amended: percentage as stated; threshold_percentage is the clamped
\* share of the configured threshold when max > min, and 0.8 both without a
\* threshold and with a threshold when max <= min.
C21_ThresholdDefault ==
    rGauge /= None =>
        /\ GaugePercentage
        /\ LET tp == rGauge[1].threshold_percentage
           IN  IF rCfg.threshold /= None /\ rCfg.max_value > rCfg.min_value
               THEN IsShare(tp, rCfg.threshold[1], rCfg)
               ELSE tp[1] * 5 = 4 * tp[2]

\* generate_gauge computed its percentages for a configured threshold on an
\* empty range
C21_Witness ==
    /\ rGauge /= None
    /\ rCfg.threshold /= None
    /\ rCfg.max_value <= rCfg.min_value
    /\ rPc = "arc"

-----------------------------------------------------------------------------
(* Claims about the colour strings (SpecColor) *)

\* the string is '#' followed by exactly six hex digits
WellFormedHex(s) ==
    /\ Len(s) = 7
    /\ s[1] = "#"
    /\ \A i \in 2..7 : to_digit(s[i]) /= None

\* C22: "#FF00AA" parses to (255, 0, 170, 255); every string that is not '#'
\* followed by exactly six hex digits gives the default colour (green for
\* normal_color); parsing never panics.
C22_HexParsingLaw ==
    /\ colPc /= "panicked"
    /\ (colPc \in {"warning", "done"} /\ colNormal = <<"#", "F", "F", "0", "0", "A", "A">>)
           => Unwrap(colScheme).normal_color = <<255, 0, 170, 255>>
    /\ (colPc \in {"warning", "done"} /\ ~WellFormedHex(colNormal))
           => Unwrap(colScheme).normal_color = <<0, 255, 0, 255>>

-----------------------------------------------------------------------------
(* Claims about the gauge zones (SpecRender) *)

\* the pixel lies in the 270 degree sweep, at or after the share q of it
SweepGe(dx, dy, q) ==
    IF angle_at(q) < Deg(360)
    THEN angle_ge(dx, dy, angle_at(q)) \/ angle_le(dx, dy, end_angle)
    ELSE angle_ge(dx, dy, angle_at(q) - Deg(360)) /\ angle_le(dx, dy, end_angle)

\* generate_gauge has drawn its two background arcs and not yet the filled one
BackgroundDrawn ==
    /\ rKind = "gauge"
    /\ rPc = "arc"
    /\ rIdx = 3

\* C23: before the filled arc is drawn, every ring pixel the loops visit that
\* lies in the sweep before the threshold angle holds the dimmed normal colour,
\* and every one at or after the threshold angle holds the dimmed warning
\* colour if a threshold exists (the dimmed normal colour otherwise), for
\* every threshold percentage, those past the wrap at 0 = 2 * PI included.
C23_BackgroundZones ==
    BackgroundDrawn =>
        \A p \in arc_ring(gauge_center_x, gauge_center_y, inner_radius, outer_radius) :
            LET dx == p[1] - gauge_center_x
                dy == p[2] - gauge_center_y
                tp == Unwrap(rGauge).threshold_percentage
            IN  /\ (InSweep(dx, dy, tp) /\ ~SweepGe(dx, dy, tp))
                       => get_pixel(rImg, p) = "normal_bg_color"
                /\ SweepGe(dx, dy, tp)
                       => get_pixel(rImg, p) = IF rCfg.threshold /= None
                                               THEN "warning_bg_color"
                                               ELSE "normal_bg_color"

\* the angle of the pixel lies strictly between 45 and 135 degrees
InGap(dx, dy) == ~angle_le(dx, dy, end_angle) /\ ~angle_ge(dx, dy, start_angle)

\* C27: whatever the current value, the range and the threshold, none of the
\* three draw_thick_arc calls of generate_gauge writes a pixel whose angle
\* from the center lies strictly inside the gap between 45 and 135 degrees.
C27_GapUntouched ==
    rKind = "gauge" =>
        /\ \A p \in rTouched : ~InGap(p[1] - gauge_center_x, p[2] - gauge_center_y)
        /\ \A c \in Colours : \A p \in rImg.px[c] :
               ~InGap(p[1] - gauge_center_x, p[2] - gauge_center_y)

\* a gauge with a threshold has drawn its three arcs, up to both rays that
\* bound the gap
C27_Witness ==
    /\ rKind = "gauge"
    /\ rPc = "done"
    /\ rCfg.threshold /= None
    /\ <<gauge_center_x - 30, gauge_center_y + 30>> \in rImg.px["normal_color"]
    /\ <<gauge_center_x + 30, gauge_center_y + 30>> \in rImg.px["warning_bg_color"]

\* C28: whenever the filled arc is drawn in the warning colour, the title was
\* drawn in the warning colour too.
C28_FillImpliesTitle ==
    (FilledArcDrawn /\ rColor = Some("warning_color"))
        => /\ rTitle = Some([title |-> rCfg.title, color |-> "warning_color"])
           /\ rCfg.threshold /= None
           /\ rCfg.data_points[Len(rCfg.data_points)] > rCfg.threshold[1]

\* a filled arc in the warning colour
C28_Witness ==
    /\ FilledArcDrawn
    /\ rColor = Some("warning_color")
    /\ rImg.px["warning_color"] /= {}

-----------------------------------------------------------------------------
(* Claims about the graph image (SpecRender) *)

\* every pixel draw_connected_line passes to put_pixel for the points
LinePixels ==
    UNION {connected_line_part(rPoints, i, GRAPH_PADDING, GRAPH_PADDING + TITLE_HEIGHT) :
               i \in 0..Max(Len(rPoints) - 2, 0)}

\* C24: generate_graph draws the title first, then the gradient fill, then
\* the line, so in the returned image every pixel of the line holds exactly
\* the line colour and no blend of the fill.
C24_LineOnTop ==
    rKind = "graph" =>
        /\ rPc \in {"fill", "line"} => rTitle /= None
        /\ rPc = "fill" => \A c \in Colours : rImg.px[c] = {}
        /\ rPc = "line" => \A x \in fill_min_x(rPoints)..fill_max_x(rPoints) :
                               \E run \in rImg.blended : run.x = x + GRAPH_PADDING
        /\ (rPc = "done" /\ rPoints /= << >>) =>
               \A p \in LinePixels : get_pixel(rImg, p) = line_color(rCfg)

\* a returned graph of a full window whose line runs through blended columns
C24_Witness ==
    /\ rKind = "graph"
    /\ rPc = "done"
    /\ Len(rPoints) = MAX_DATA_POINTS
    /\ \E run \in rImg.blended : <<run.x, run.lo>> \in rImg.px[line_color(rCfg)]
    /\ \E run \in rImg.blended : get_pixel(rImg, <<run.x, run.hi>>) = "blended"

\* the number of put_pixel calls of the last draw_connected_line step when no
\* guard skips one: one for a single point, max(|dx|, |dy|) + 1 for a segment
SegmentLength ==
    LET i == IF rPc = "done" THEN Max(Len(rPoints) - 2, 0) ELSE rIdx - 1
    IN  IF Len(rPoints) < 2 THEN 1
        ELSE Max(Abs(rPoints[i + 2][1] - rPoints[i + 1][1]),
                 Abs(rPoints[i + 2][2] - rPoints[i + 1][2])) + 1

\* C29: in graph mode, for every window of 1..60 samples and every min/max,
\* the points of normalize_points satisfy 0 <= x <= 124 and 0 <= y <= 89 with
\* x non-decreasing, every pixel of the fill and the line lies in columns
\* 10..134 and rows 45..134, and no guard skips a write.
C29_PlotRectangle ==
    (rKind = "graph" /\ rPoints /= << >>) =>
        /\ rPc /= "panicked"
        /\ \A i \in 1..Len(rPoints) :
               /\ 0 <= rPoints[i][1] /\ rPoints[i][1] <= 124
               /\ 0 <= rPoints[i][2] /\ rPoints[i][2] <= 89
               /\ i > 1 => rPoints[i - 1][1] <= rPoints[i][1]
        /\ \A p \in rTouched : 10 <= p[1] /\ p[1] <= 134 /\ 45 <= p[2] /\ p[2] <= 134
        /\ (rPc = "fill" /\ rColor /= None) =>
               /\ rAlpha /= None
               /\ Cardinality(rTouched) = 89 - rAlpha[1].line_y + 1
        /\ (rPc \in {"line", "done"} /\ rColor /= None) =>
               Cardinality(rTouched) = SegmentLength

\* the returned graph of a window of 60 samples that reaches the right, the
\* top and the bottom edge of the plot rectangle
C29_Witness ==
    /\ rKind = "graph"
    /\ rPc = "done"
    /\ Len(rPoints) = GD_MAX_DATA_POINTS
    /\ rPoints[GD_MAX_DATA_POINTS][1] = 124
    /\ \E i \in 1..Len(rPoints) : rPoints[i][2] = 0
    /\ \E i \in 1..Len(rPoints) : rPoints[i][2] = 89
    /\ <<134, 134>> \in rTouched

-----------------------------------------------------------------------------
(* Claims about did_receive_settings (Spec) *)

\* the step in which did_receive_settings runs from the lock to its return
SettingsStep ==
    /\ handlerPc["did_receive_settings"] = "locked"
    /\ handlerPc'["did_receive_settings"] = "idle"

SettingsId == handlerArg["did_receive_settings"].id
SettingsNew == handlerArg["did_receive_settings"].settings
SettingsKnown == MapHas(GRAPH_INSTANCES, SettingsId)

\* the new source is WebSocket and the previous one of the instance was not
TurnsWebSocket ==
    /\ SettingsKnown
    /\ SettingsNew.data_source = "WebSocket"
    /\ GRAPH_INSTANCES[SettingsId].settings.data_source /= "WebSocket"

\* no client is started and ws_client stays (for an unknown id, the whole map)
NothingStarted ==
    /\ wsSpawned'.n = 0
    /\ IF SettingsKnown
       THEN GRAPH_INSTANCES'[SettingsId].ws_client = GRAPH_INSTANCES[SettingsId].ws_client
       ELSE GRAPH_INSTANCES' = GRAPH_INSTANCES

\* one client for the new URL is started and stored in ws_client
ClientStarted ==
    /\ wsSpawned'.n = 1
    /\ GRAPH_INSTANCES'[SettingsId].ws_client = Some([url |-> Unwrap(SettingsNew.websocket_url)])

\* C25 as stated: did_receive_settings starts a new WebSocket client exactly
\* when the new data source is WebSocket and the previous one was not; in
\* every other case ws_client is unchanged and no connection task is started.
C25_StartsOnChange ==
    [][SettingsStep => IF TurnsWebSocket THEN wsSpawned'.n = 1 ELSE NothingStarted]_vars

\* C25 amended: a client is started exactly when the new data source is
\* WebSocket, the previous one was not, and the new settings have a
\* websocket_url; otherwise ws_client is unchanged and nothing is started.
C25_StartsOnChangeWithUrl ==
    [][SettingsStep => IF TurnsWebSocket /\ SettingsNew.websocket_url /= None
                       THEN ClientStarted
                       ELSE NothingStarted]_vars

\* did_receive_settings has started a client for an instance that has samples
C25_Witness ==
    /\ wsSpawned = [by |-> "did_receive_settings", n |-> 1]
    /\ \E id \in DOMAIN GRAPH_INSTANCES :
           /\ GRAPH_INSTANCES[id].ws_client /= None
           /\ GRAPH_INSTANCES[id].data_points /= << >>

-----------------------------------------------------------------------------
(* Claims about the reconnect loop (SpecWebSocket) *)

\* the ping tasks that are alive
AlivePings == {i \in 1..Len(wsPing) : wsPing[i] = "alive"}

\* between two connections, and until the next one has sent its init
\* messages, no ping task is alive; at any time at most one is
PingsAborted ==
    /\ Cardinality(AlivePings) <= 1
    /\ wsPc \in {"returned", "sleep", "connect", "init"} => AlivePings = {}
    /\ wsPc = "read" => AlivePings \subseteq {i \in 1..Len(wsPing) : wsPingHandle = Some(i)}

\* run_connection goes from a return of connect_and_run to the sleep only,
\* and from the sleep to the next connect_and_run only
LoopStep ==
    /\ wsPc = "returned" => wsPc' = "sleep"
    /\ wsPc = "sleep" => wsPc' = "connect" /\ wsAttempts' = wsAttempts + 1
    /\ wsPc /= "new" => wsPc' /= "new"

\* C30: once start() has spawned run_connection the loop does not exit: every
\* return of connect_and_run, Ok or Err, is followed by the sleep and by
\* another connection attempt, and the ping task of the finished connection is
\* aborted before that attempt, so at most one ping task is alive at any time.
C30_ReconnectLoop ==
    /\ []PingsAborted
    /\ [][LoopStep]_wsVars
    /\ \A r \in {"Ok", "Err"} :
           (wsPc = "returned" /\ wsResult = Some(r) /\ wsAttempts < MaxAttempts)
               ~> (wsPc = "connect")

\* a second connection with its own ping task alive, the one of the first
\* connection aborted
C30_Witness ==
    /\ wsPc = "read"
    /\ wsAttempts >= 2
    /\ Len(wsPing) >= 2
    /\ wsPing[1] = "aborted"
    /\ wsPing[Len(wsPing)] = "alive"
    /\ wsResult /= None
=============================================================================
